---- MODULE Spec2Model ----
(***************************************************************************)
(* Model of the Inquiry Framework tools:                                   *)
(*   inquiry.py                - the "current feature" tracker             *)
(*   create-research-issues.py - the batch issue creator                   *)
(* Strings are sequences of one-character strings, so that formatting and  *)
(* parsing of the .current marker file are computed, not assumed.          *)
(***************************************************************************)
EXTENDS Integers, Sequences, FiniteSets, TLC

VARIABLES
    currentFile,  \* content of tools/.current, or NoFile
    issues,       \* the state of the repository's issues, indexed by issue number
    dirty,        \* git working tree has uncommitted changes
    tracked,      \* issues created by start, not yet finished by done or released by abort
    last,         \* what the last command did (its locals, exit and external calls)
    \* create-research-issues.py
    cfgExists,    \* the file named by --config exists
    config,       \* its content: kind -> list of item mappings
    dry_run,      \* --dry-run
    argType,      \* --type
    bpc,          \* where main is: "load", a kind, "done" (exit 0) or "exit1"
    created_urls, \* main's list of the URLs of the issues created
    ghLog,        \* the "gh issue create" invocations made, in order
    previews,     \* the titles printed by "[DRY RUN] Would create issue"
    \* generate_domain_body
    bodyArg,      \* the domain mapping given to it
    bodyOut,      \* the body it returned, or NotRun
    \* research.py
    files,        \* the documents under research/, agents/ and evals/: path -> content
    dirs,         \* the directories there
    today,        \* the date today() returns
    rlast,        \* the last research.py command and what its create_file calls returned
    \* two concurrent runs of inquiry.py start
    procs,        \* per process: where it is in cmd_start, and its locals
    \* the marker file functions of inquiry.py, applied to given arguments
    markArg,      \* the feature id and issue number given to set_current_feature
    markOut,      \* what get_current_feature returned after set and after clear
    \* the title, body and labels create-research-issues.py builds for one item
    itemArg,      \* the kind and the item mapping
    itemOut,      \* what was built from it, or NotRun
    \* generate-all-prompts.py
    promptDir,    \* the prompt files in prompts/, sorted by name: id and content
    pargs,        \* the command-line arguments
    pout          \* what main did, or NotRun

trackerVars == <<currentFile, issues, dirty, tracked, last>>
batchVars == <<cfgExists, config, dry_run, argType, bpc, created_urls, ghLog, previews>>
bodyVars == <<bodyArg, bodyOut>>
researchVars == <<files, dirs, today, rlast>>
raceVars == <<procs>>
applyVars == <<markArg, markOut, itemArg, itemOut>>
promptVars == <<promptDir, pargs, pout>>
vars == <<trackerVars, batchVars, bodyVars, researchVars, raceVars, applyVars, promptVars>>

----------------------------------------------------------------------------
(* Bounds *)

MaxIssues == 2   \* issues the repository can hold
MaxItems == 2    \* items in a create-research-issues configuration, all kinds together
MaxCats == 2     \* entries of a domain's categories list
MaxKeys == 2     \* keys present in, or missing from, a mapping given to build_issue

----------------------------------------------------------------------------
(* Text helpers: Python str methods on sequences of characters *)

NoFile == <<"<absent>">>

Digits == <<"0", "1", "2", "3", "4", "5", "6", "7", "8", "9">>

\* str(n) for n >= 0, as in the f-string of set_current_feature
RECURSIVE FormatInt(_)
FormatInt(n) ==
    IF n < 10 THEN <<Digits[n + 1]>>
    ELSE FormatInt(n \div 10) \o <<Digits[(n % 10) + 1]>>

IsDigit(c) == \E i \in 1..10 : Digits[i] = c

DigitValue(c) == (CHOOSE i \in 1..10 : Digits[i] = c) - 1

\* s.strip()
RECURSIVE StripLeft(_)
StripLeft(s) ==
    IF s # <<>> /\ Head(s) = " " THEN StripLeft(Tail(s)) ELSE s

RECURSIVE StripRight(_)
StripRight(s) ==
    IF s # <<>> /\ s[Len(s)] = " " THEN StripRight(SubSeq(s, 1, Len(s) - 1)) ELSE s

Strip(s) == StripRight(StripLeft(s))

\* ":" in s
HasColon(s) == \E i \in 1..Len(s) : s[i] = ":"

\* s.split(":")
RECURSIVE Split(_)
Split(s) ==
    IF ~HasColon(s) THEN <<s>>
    ELSE LET i == CHOOSE k \in 1..Len(s) :
                      s[k] = ":" /\ \A j \in 1..(k - 1) : s[j] # ":"
         IN <<SubSeq(s, 1, i - 1)>> \o Split(SubSeq(s, i + 1, Len(s)))

\* int(s) accepts the digits, with surrounding blanks
IsInt(s) == Strip(s) # <<>> /\ \A i \in 1..Len(Strip(s)) : IsDigit(Strip(s)[i])

RECURSIVE ParseDigits(_)
ParseDigits(s) ==
    IF s = <<>> THEN 0
    ELSE 10 * ParseDigits(SubSeq(s, 1, Len(s) - 1)) + DigitValue(s[Len(s)])

ParseInt(s) == ParseDigits(Strip(s))

\* confirm.lower() on the answers a user types at a [y/N] prompt
Answers == {"y", "Y", "n", ""}

Lower(a) == IF a = "Y" THEN "y" ELSE a

----------------------------------------------------------------------------
(* features.yaml: the features the tracker can start *)

F11 == <<"1", ".", "1">>
F12 == <<"1", ".", "2">>
FColon == <<"a", ":", "b">>
FUnknown == <<"9", ".", "9">>

LabelTypes == <<"phase", "component", "size">>

\* config["features"]: feature id -> mapping; a key that is absent is absent
features ==
    (F11 :> [title |-> "Core types", phase |-> "phase:1",
             component |-> "component:core", size |-> "size:small"])
    @@ (F12 :> [title |-> "Parser", size |-> "size:large"])
    @@ (FColon :> [title |-> "Colon"])

\* the feature ids a user may type on the command line
Requests == DOMAIN features \cup {FUnknown}

\* feature.get(key): the value, or "" (falsy) when the key is absent
FeatureGet(fid, key) ==
    IF key \in DOMAIN features[fid] THEN features[fid][key] ELSE ""

----------------------------------------------------------------------------
(* The .current marker file *)

None == [tag |-> "None", id |-> <<>>, num |-> 0]
ValueError == [tag |-> "ValueError", id |-> <<>>, num |-> 0]
Some(fid, n) == [tag |-> "Some", id |-> fid, num |-> n]

get_current_feature_none(file) == None

get_current_feature_unchecked(file) ==
    IF file = NoFile THEN None
    ELSE LET parts == Split(Strip(file)) IN
         IF Len(parts) # 2 THEN ValueError
         ELSE IF ~IsInt(parts[2]) THEN ValueError
         ELSE Some(parts[1], ParseInt(parts[2]))

get_current_feature(file) ==
    IF file = NoFile THEN None
    ELSE LET content == Strip(file) IN
         IF ~HasColon(content) THEN None
         ELSE LET parts == Split(content) IN
              IF Len(parts) # 2 THEN ValueError        \* unpacking into two names
              ELSE IF ~IsInt(parts[2]) THEN ValueError \* int(issue_num)
              ELSE Some(parts[1], ParseInt(parts[2]))

set_current_feature(fid, n) == fid \o <<":">> \o FormatInt(n)

clear_current_feature(file) == NoFile

----------------------------------------------------------------------------
(* The record of the last command *)

\* cmd: the command; arg: its feature id argument; current: what its call of
\* get_current_feature returned; answer: what the user typed at its prompt
\* ("-" when it did not prompt); outcome: "ok" (ran to its end), "return" (early
\* return), "exit1" (sys.exit(1)) or "raise" (uncaught exception); gh, git: the
\* GitHub API calls and git commands it made, in order; labels: the labels start
\* passed to repo.create_issue
NoCmd == [cmd |-> "none", arg |-> <<>>, current |-> None, answer |-> "-",
          outcome |-> "none", gh |-> <<>>, git |-> <<>>, labels |-> <<>>, lab |-> <<>>]

Result(cmd, arg, current, answer, outcome, gh, git) ==
    [cmd |-> cmd, arg |-> arg, current |-> current, answer |-> answer,
     outcome |-> outcome, gh |-> gh, git |-> git, labels |-> <<>>, lab |-> <<>>]

ErrorExits == {"exit1", "raise"}

\* a mapping with no key, as yaml loads "{}"
EmptyMapping == [k \in {} |-> 0]

\* d.get(key, default)
Get(d, key, default) == IF key \in DOMAIN d THEN d[key] ELSE default

NotRun == [run |-> FALSE]

TrackerInit ==
    /\ currentFile = NoFile
    /\ issues = <<>>
    /\ dirty = FALSE
    /\ tracked = {}
    /\ last = NoCmd

BatchIdle ==
    /\ cfgExists = FALSE
    /\ config = EmptyMapping
    /\ dry_run = FALSE
    /\ argType = "all"
    /\ bpc = "idle"
    /\ created_urls = <<>>
    /\ ghLog = <<>>
    /\ previews = <<>>

BodyIdle ==
    /\ bodyArg = EmptyMapping
    /\ bodyOut = NotRun

\* the dates today() returns, in order
Days == <<"2025-01-01", "2025-01-02">>

ResearchIdle ==
    /\ files = EmptyMapping
    /\ dirs = {}
    /\ today = Days[1]
    /\ rlast = NotRun

\* no run of start is under way, nothing was given to the functions applied
\* on their own, and generate-all-prompts.py was not called
OthersIdle ==
    /\ procs = <<>>
    /\ markArg = EmptyMapping /\ markOut = NotRun
    /\ itemArg = EmptyMapping /\ itemOut = NotRun
    /\ promptDir = <<>> /\ pargs = EmptyMapping /\ pout = NotRun

Init == TrackerInit /\ BatchIdle /\ BodyIdle /\ ResearchIdle /\ OthersIdle

----------------------------------------------------------------------------
(* get_github: the token and repository checks made before any API use *)

GithubEnvs == {"ok", "no_token", "no_access"}

\* the API calls get_github makes: g.get_repo, unless the token is missing
get_github_calls(env) == IF env = "no_token" THEN <<>> ELSE <<"get_repo">>

----------------------------------------------------------------------------
(* start *)

LabelOutcomes == {"found", "created", "failed"}

start_labels_all(fid, lab, i) ==
    SelectSeq([k \in 1..Len(LabelTypes) |-> FeatureGet(fid, LabelTypes[k])],
              LAMBDA name : name # "")

\* the labels cmd_start attaches: for each label type the feature names, the
\* label when repo.get_label or the fallback repo.create_label succeeded
RECURSIVE start_labels(_, _, _)
start_labels(fid, lab, i) ==
    IF i > Len(LabelTypes) THEN <<>>
    ELSE LET name == FeatureGet(fid, LabelTypes[i]) IN
         (IF name # "" /\ lab[i] # "failed" THEN <<name>> ELSE <<>>)
         \o start_labels(fid, lab, i + 1)

RECURSIVE start_label_calls(_, _, _)
start_label_calls(fid, lab, i) ==
    IF i > Len(LabelTypes) THEN <<>>
    ELSE LET name == FeatureGet(fid, LabelTypes[i]) IN
         (IF name = "" THEN <<>>
          ELSE IF lab[i] = "found" THEN <<"get_label">>
          ELSE <<"get_label", "create_label">>)
         \o start_label_calls(fid, lab, i + 1)

start_unguarded(current) == FALSE

\* "if current:" - start refuses while a feature is current
start_refused(current) == current.tag = "Some"

cmd_start(fid) ==
    LET current == get_current_feature(currentFile) IN
    IF current.tag = "ValueError" THEN
        /\ last' = Result("start", fid, current, "-", "raise", <<>>, <<>>)
        /\ UNCHANGED <<currentFile, issues, dirty, tracked>>
    ELSE IF start_refused(current) THEN
        /\ last' = Result("start", fid, current, "-", "exit1", <<>>, <<>>)
        /\ UNCHANGED <<currentFile, issues, dirty, tracked>>
    ELSE IF fid \notin DOMAIN features THEN
        /\ last' = Result("start", fid, current, "-", "exit1", <<>>, <<>>)
        /\ UNCHANGED <<currentFile, issues, dirty, tracked>>
    ELSE \E env \in GithubEnvs :
        IF env # "ok" THEN
            /\ last' = Result("start", fid, current, "-", "exit1",
                              get_github_calls(env), <<>>)
            /\ UNCHANGED <<currentFile, issues, dirty, tracked>>
        ELSE \E lab \in [1..Len(LabelTypes) -> LabelOutcomes], createOk \in BOOLEAN :
            LET calls == get_github_calls(env) \o start_label_calls(fid, lab, 1)
                                              \o <<"create_issue">>
                labels == start_labels(fid, lab, 1)
                number == Len(issues) + 1
                \* what happened to the label of each type the feature names
                tried == [i \in 1..Len(LabelTypes) |->
                             IF FeatureGet(fid, LabelTypes[i]) = "" THEN "none" ELSE lab[i]]
            IN
            IF ~createOk THEN
                /\ last' = [Result("start", fid, current, "-", "raise", calls, <<>>)
                                EXCEPT !.labels = labels, !.lab = tried]
                /\ UNCHANGED <<currentFile, issues, dirty, tracked>>
            ELSE
                /\ number <= MaxIssues
                /\ issues' = Append(issues, "open")
                /\ currentFile' = set_current_feature(fid, number)
                /\ tracked' = tracked \cup {number}
                /\ last' = [Result("start", fid, current, "-", "ok", calls, <<>>)
                                EXCEPT !.labels = labels, !.lab = tried]
                /\ UNCHANGED dirty

----------------------------------------------------------------------------
(* done *)

close_issue_noop(iss, n) == iss

\* issue.edit(state="closed")
close_issue(iss, n) == [iss EXCEPT ![n] = "closed"]

\* GitHub closing the issue a pushed commit names with "Closes #n"
auto_close(iss, n) == IF n \in 1..Len(iss) THEN [iss EXCEPT ![n] = "closed"] ELSE iss

\* lines 313-326 of cmd_done: close the issue through the API, clear .current
done_close(current, answer, git, hasSha, iss1) ==
    \E env \in GithubEnvs, fetchOk \in BOOLEAN, commentOk \in BOOLEAN, editOk \in BOOLEAN :
        LET n == current.num
            c0 == get_github_calls(env)
        IN
        IF env # "ok" THEN
            /\ issues' = iss1
            /\ last' = Result("done", <<>>, current, answer, "exit1", c0, git)
            /\ UNCHANGED <<currentFile, tracked>>
        ELSE IF ~fetchOk \/ n \notin 1..Len(iss1) THEN
            /\ issues' = iss1
            /\ last' = Result("done", <<>>, current, answer, "raise",
                              c0 \o <<"get_issue">>, git)
            /\ UNCHANGED <<currentFile, tracked>>
        ELSE IF iss1[n] # "open" THEN
            /\ issues' = iss1
            /\ currentFile' = clear_current_feature(currentFile)
            /\ tracked' = tracked \ {n}
            /\ last' = Result("done", <<>>, current, answer, "ok",
                              c0 \o <<"get_issue">>, git)
        ELSE IF hasSha /\ ~commentOk THEN
            /\ issues' = iss1
            /\ last' = Result("done", <<>>, current, answer, "raise",
                              c0 \o <<"get_issue", "create_comment">>, git)
            /\ UNCHANGED <<currentFile, tracked>>
        ELSE LET c1 == c0 \o <<"get_issue">>
                          \o (IF hasSha THEN <<"create_comment">> ELSE <<>>)
                          \o <<"edit">>
             IN
             IF ~editOk THEN
                /\ issues' = iss1
                /\ last' = Result("done", <<>>, current, answer, "raise", c1, git)
                /\ UNCHANGED <<currentFile, tracked>>
             ELSE
                /\ issues' = close_issue(iss1, n)
                /\ currentFile' = clear_current_feature(currentFile)
                /\ tracked' = tracked \ {n}
                /\ last' = Result("done", <<>>, current, answer, "ok", c1, git)

done_unguarded(current) == FALSE

\* "if not current:" - done needs a current feature
done_refused(current) == current.tag = "None"

\* "confirm.lower() != 'y'" returns; anything else closes the issue anyway
done_confirmed(a) == Lower(a) = "y"

cmd_done ==
    LET current == get_current_feature(currentFile) IN
    IF current.tag = "ValueError" THEN
        /\ last' = Result("done", <<>>, current, "-", "raise", <<>>, <<>>)
        /\ UNCHANGED <<currentFile, issues, dirty, tracked>>
    ELSE IF done_refused(current) THEN
        /\ last' = Result("done", <<>>, current, "-", "exit1", <<>>, <<>>)
        /\ UNCHANGED <<currentFile, issues, dirty, tracked>>
    ELSE IF ~dirty THEN
        \* git status --porcelain prints nothing: "Close issue anyway? [y/N]"
        \E a \in Answers :
            IF ~done_confirmed(a) THEN
                /\ last' = Result("done", <<>>, current, a, "return", <<>>, <<"status">>)
                /\ UNCHANGED <<currentFile, issues, dirty, tracked>>
            ELSE
                /\ done_close(current, a, <<"status">>, FALSE, issues)
                /\ UNCHANGED dirty
    ELSE
        \* git add, commit, rev-parse, push: none of them is checked for failure
        \E commitOk \in BOOLEAN, pushOk \in BOOLEAN, autoClose \in BOOLEAN :
            /\ dirty' = IF commitOk THEN FALSE ELSE dirty
            /\ done_close(current, "-",
                          <<"status", "add", "commit", "rev-parse", "push">>, TRUE,
                          IF commitOk /\ pushOk /\ autoClose
                          THEN auto_close(issues, current.num) ELSE issues)

----------------------------------------------------------------------------
(* abort *)

abort_confirmed_exact(a) == a = "y"

\* "if confirm.lower() == 'y':"
abort_confirmed(a) == Lower(a) = "y"

cmd_abort ==
    LET current == get_current_feature(currentFile) IN
    IF current.tag = "ValueError" THEN
        /\ last' = Result("abort", <<>>, current, "-", "raise", <<>>, <<>>)
        /\ UNCHANGED <<currentFile, issues, dirty, tracked>>
    ELSE IF current.tag = "None" THEN
        /\ last' = Result("abort", <<>>, current, "-", "return", <<>>, <<>>)
        /\ UNCHANGED <<currentFile, issues, dirty, tracked>>
    ELSE \E a \in Answers :
        IF abort_confirmed(a) THEN
            /\ currentFile' = clear_current_feature(currentFile)
            /\ tracked' = tracked \ {current.num}
            /\ last' = Result("abort", <<>>, current, a, "ok", <<>>, <<>>)
            /\ UNCHANGED <<issues, dirty>>
        ELSE
            /\ last' = Result("abort", <<>>, current, a, "ok", <<>>, <<>>)
            /\ UNCHANGED <<currentFile, issues, dirty, tracked>>

----------------------------------------------------------------------------
(* The developer edits files in the working tree between commands *)

EditFiles ==
    /\ dirty' = TRUE
    /\ last' = Result("edit", <<>>, None, "-", "ok", <<>>, <<>>)
    /\ UNCHANGED <<currentFile, issues, tracked>>

Next ==
    \/ (\E fid \in Requests : cmd_start(fid))
          /\ UNCHANGED <<batchVars, bodyVars, researchVars, raceVars, applyVars, promptVars>>
    \/ cmd_done
          /\ UNCHANGED <<batchVars, bodyVars, researchVars, raceVars, applyVars, promptVars>>
    \/ cmd_abort
          /\ UNCHANGED <<batchVars, bodyVars, researchVars, raceVars, applyVars, promptVars>>
    \/ EditFiles
          /\ UNCHANGED <<batchVars, bodyVars, researchVars, raceVars, applyVars, promptVars>>

Spec == Init /\ [][Next]_vars

\* a checkout whose tools/.current was left empty, blank or cut off before
\* the colon
InitDamaged ==
    /\ currentFile \in {<<>>, <<" ">>, <<"1", ".", "1">>}
    /\ issues = <<>>
    /\ dirty = FALSE
    /\ tracked = {}
    /\ last = NoCmd
    /\ BatchIdle /\ BodyIdle /\ ResearchIdle /\ OthersIdle

SpecDamaged == InitDamaged /\ [][Next]_vars

----------------------------------------------------------------------------
(* Properties of the tracker *)

\* the marker file holds "id:number" as set_current_feature writes it
RecordsFeature(file) ==
    /\ file # NoFile
    /\ \E k \in 1..Len(file) :
          /\ file[k] = ":"
          /\ \A j \in (k + 1)..Len(file) : IsDigit(file[j])
          /\ k < Len(file)

\* no feature is current: no marker file, or one without a colon
NoCurrent(file) == file = NoFile \/ ~HasColon(Strip(file))

\* C1: a start run while .current records a feature exits with an error (with
\* sys.exit(1) when the record reads back as a feature), calls GitHub not at
\* all, creates no issue and leaves .current as it was, whichever feature id
\* was asked for.
C1_StartRefusedWhileCurrent ==
    [][(last'.cmd = "start" /\ RecordsFeature(currentFile)) =>
          /\ last'.outcome \in ErrorExits
          /\ (get_current_feature(currentFile).tag = "Some" => last'.outcome = "exit1")
          /\ last'.gh = <<>>
          /\ issues' = issues
          /\ currentFile' = currentFile]_vars

\* a start of the feature that is already current has been refused
C1_Witness ==
    /\ last.cmd = "start"
    /\ last.outcome = "exit1"
    /\ last.current.tag = "Some"
    /\ last.arg = last.current.id
    /\ RecordsFeature(currentFile)

\* C2: at most one issue created by start is neither finished by done nor
\* released by abort, and it is the one .current records; a start succeeds only
\* when no feature is current; only done and abort take the tracker from a
\* current feature back to none.
C2_SingleCurrentFeature ==
    /\ [](/\ Cardinality(tracked) <= 1
          /\ (tracked = {} <=> NoCurrent(currentFile))
          /\ \A n \in tracked : \E fid \in DOMAIN features :
                currentFile = set_current_feature(fid, n))
    /\ [][(last'.cmd = "start" /\ last'.outcome = "ok") =>
              (NoCurrent(currentFile) /\ ~NoCurrent(currentFile'))]_vars
    /\ [][(~NoCurrent(currentFile) /\ NoCurrent(currentFile')) =>
              last'.cmd \in {"done", "abort"}]_vars

\* a second feature is current after the first was given up, and a further
\* start has been refused
C2_Witness ==
    /\ Len(issues) >= 2
    /\ Cardinality(tracked) = 1
    /\ last.cmd = "start"
    /\ last.outcome = "exit1"
    /\ last.current.tag = "Some"

\* C3: after a done that ran to its end, the issue .current named is closed
\* and no feature is current.
C3_DoneClosesAndClears ==
    (last.cmd = "done" /\ last.outcome = "ok") =>
        /\ last.current.num \in 1..Len(issues)
        /\ issues[last.current.num] = "closed"
        /\ NoCurrent(currentFile)

\* done found the issue open and closed it through the API
C3_Witness ==
    /\ last.cmd = "done"
    /\ last.outcome = "ok"
    /\ \E i \in 1..Len(last.gh) : last.gh[i] = "edit"
    /\ issues[last.current.num] = "closed"

\* C4: a done run while no feature is current exits with sys.exit(1), having
\* run no git command and made no GitHub call; no issue changes state and the
\* working tree is not committed.
C4_DoneWithoutCurrent ==
    [][(last'.cmd = "done" /\ NoCurrent(currentFile)) =>
          /\ last'.outcome = "exit1"
          /\ last'.git = <<>>
          /\ last'.gh = <<>>
          /\ issues' = issues
          /\ dirty' = dirty
          /\ currentFile' = currentFile]_vars

\* done was refused with changes waiting in the working tree
C4_Witness ==
    /\ last.cmd = "done"
    /\ last.outcome = "exit1"
    /\ last.current.tag = "None"
    /\ NoCurrent(currentFile)
    /\ dirty
    /\ Len(issues) >= 1

\* C5 as stated: abort clears .current only on the answer 'y', and leaves
\* .current and the issues alone on every other answer.
C5_AbortOnlyOnLowercaseY ==
    [][last'.cmd = "abort" =>
          IF get_current_feature(currentFile).tag = "Some" /\ last'.answer = "y"
          THEN /\ NoCurrent(currentFile')
               /\ issues' = issues
               /\ last'.gh = <<>>
          ELSE /\ currentFile' = currentFile
               /\ issues' = issues
               /\ last'.gh = <<>>]_vars

\* C5 amended: abort clears .current when the answer is 'y' or 'Y' (the answer
\* is lower-cased before it is compared), without any GitHub call and without
\* changing an issue; on any other answer, or with no feature current,
\* .current and the issues are left as they were.
C5_AbortFrame ==
    [][last'.cmd = "abort" =>
          IF get_current_feature(currentFile).tag = "Some" /\ last'.answer \in {"y", "Y"}
          THEN /\ NoCurrent(currentFile')
               /\ issues' = issues
               /\ last'.gh = <<>>
          ELSE /\ currentFile' = currentFile
               /\ issues' = issues
               /\ last'.gh = <<>>]_vars

\* a feature was abandoned on the answer 'Y' and its issue is still open
C5_Witness ==
    /\ last.cmd = "abort"
    /\ last.answer = "Y"
    /\ last.current.tag = "Some"
    /\ NoCurrent(currentFile)
    /\ issues[last.current.num] = "open"

\* C13: when the lookup of a label and the fallback creation of it both
\* fail in start, the command goes on to repo.create_issue, which it calls
\* with exactly the labels of the types phase, component, size, in this order,
\* that were found or created; and when that call succeeds the issue is there,
\* open, and .current records the feature with the issue's number.
C13_LabelFailureSwallowed ==
    [][(last'.cmd = "start" /\ \E i \in 1..Len(last'.lab) : last'.lab[i] = "failed") =>
          LET r == last'
              got == {i \in 1..Len(LabelTypes) : r.lab[i] \in {"found", "created"}}
              nth(k) == CHOOSE i \in got : Cardinality({j \in got : j < i}) = k - 1
          IN /\ r.gh[Len(r.gh)] = "create_issue"
             /\ Len(r.labels) = Cardinality(got)
             /\ \A k \in 1..Len(r.labels) :
                    r.labels[k] = FeatureGet(r.arg, LabelTypes[nth(k)])
             /\ r.outcome = "ok" =>
                    /\ issues' = Append(issues, "open")
                    /\ currentFile' = set_current_feature(r.arg, Len(issues'))
                    /\ ~NoCurrent(currentFile')]_vars

\* a feature was started whose component label could neither be found nor
\* created: the issue carries the phase and size labels only
C13_Witness ==
    /\ last.cmd = "start" /\ last.outcome = "ok"
    /\ last.arg = F11
    /\ last.lab = <<"found", "failed", "created">>
    /\ last.labels = <<FeatureGet(F11, "phase"), FeatureGet(F11, "size")>>
    /\ currentFile = set_current_feature(F11, Len(issues))

\* C14: a done whose last call to GitHub was the fetch of the current
\* feature's issue, repo.get_issue, does not end with an error.
C14_FetchFailureSwallowed ==
    (/\ last.cmd = "done"
     /\ Len(last.gh) > 0
     /\ last.gh[Len(last.gh)] = "get_issue") => last.outcome \notin ErrorExits

\* C24: a .current file whose content has no ':' counts as no current
\* feature: get_current_feature returns None; done and abort, finding
\* nothing in progress, stop before any git command or API call and leave
\* the file alone; start sees no current feature and, when it runs to its
\* end, overwrites the file with the feature it started.
C24_NoColonMeansNoCurrent ==
    [][(currentFile # NoFile /\ \A i \in 1..Len(currentFile) : currentFile[i] # ":") =>
          /\ get_current_feature(currentFile) = None
          /\ last'.current = None
          /\ last'.cmd \in {"done", "abort"} =>
                /\ last'.outcome \in {"exit1", "return"}
                /\ last'.gh = <<>> /\ last'.git = <<>>
                /\ currentFile' = currentFile
                /\ issues' = issues
          /\ last'.cmd = "start" =>
                /\ last'.outcome # "raise" \/ last'.gh # <<>>
                /\ last'.outcome = "ok" =>
                      currentFile' = last'.arg \o <<":">> \o FormatInt(Len(issues'))]_vars

\* the first start that ran to its end, which in a checkout with a damaged
\* .current is a start that found the damaged file: the file now names the
\* feature and its issue
C24_Witness ==
    /\ last.cmd = "start" /\ last.outcome = "ok"
    /\ last.current = None
    /\ Len(issues) = 1
    /\ currentFile = last.arg \o <<":", "1">>

----------------------------------------------------------------------------
(* create-research-issues.py *)

Kinds == <<"domains", "industries", "agents", "pilots">>

KindSet == {Kinds[i] : i \in 1..Len(Kinds)}

Types == {"all"} \cup KindSet

\* the item mappings a configuration is made of: "name" and "labels" may be missing
ItemMappings ==
    {EmptyMapping, [name |-> "FTC", labels |-> <<"priority:high">>], [name |-> "FDA"]}

RECURSIVE SeqsUpTo(_, _)
SeqsUpTo(S, n) ==
    IF n = 0 THEN {<<>>}
    ELSE LET shorter == SeqsUpTo(S, n - 1)
         IN shorter \cup {Append(q, x) : q \in {r \in shorter : Len(r) = n - 1}, x \in S}

RECURSIVE TotalItems(_, _)
TotalItems(cfg, ks) ==
    IF ks = {} THEN 0
    ELSE LET k == CHOOSE x \in ks : TRUE
         IN Len(cfg[k]) + TotalItems(cfg, ks \ {k})

\* the configurations over the keys ks holding at most n items: each key is
\* missing from the file, or names a list of item mappings
RECURSIVE ConfigsOver(_, _)
ConfigsOver(ks, n) ==
    IF ks = {} THEN {EmptyMapping}
    ELSE LET k == CHOOSE x \in ks : TRUE
         IN UNION {{rest} \cup {(k :> items) @@ rest :
                                  items \in SeqsUpTo(ItemMappings,
                                                     n - TotalItems(rest, DOMAIN rest))}
                   : rest \in ConfigsOver(ks \ {k}, n)}

Configs == ConfigsOver(KindSet, MaxItems)

load_config_unchecked(exists) == "loaded"

\* load_config: sys.exit(1) when the file does not exist
load_config(exists) == IF exists THEN "loaded" ELSE "exit1"

\* the f-string prefix of the issue title, per kind
TitlePrefix(kind) ==
    CASE kind = "domains" -> "[Research] Domain: "
      [] kind = "industries" -> "[Research] Industry: "
      [] kind = "agents" -> "[Agent] Spec: "
      [] kind = "pilots" -> "[Pilot] "

\* the two labels every issue of a kind carries
FixedLabels(kind) ==
    CASE kind = "domains" -> <<"research", "domain">>
      [] kind = "industries" -> <<"research", "industry">>
      [] kind = "agents" -> <<"agent", "specification">>
      [] kind = "pilots" -> <<"pilot", "testing">>

issue_title_strict(kind, item) ==
    <<TitlePrefix(kind), IF "name" \in DOMAIN item THEN item["name"] ELSE "KeyError">>

issue_title(kind, item) == <<TitlePrefix(kind), Get(item, "name", "Unknown")>>

issue_labels(kind, item) == FixedLabels(kind) \o Get(item, "labels", <<>>)

\* None, the value create_issue returns when it created nothing
NoUrl == 0

create_issue_no_dry_run(kind, item, title, labels, dry, ok, number) ==
    [gh |-> <<[kind |-> kind, item |-> item, title |-> title, labels |-> labels,
               ok |-> ok, url |-> IF ok THEN number ELSE NoUrl]>>,
     preview |-> <<>>,
     url |-> IF ok THEN number ELSE NoUrl]

\* create_issue: what one call prints, runs and returns.  ok: gh exits with
\* status 0; number: the issue whose URL gh then prints.  The body passed to gh
\* is generate_<kind>_body(item), a function of the item the log records
create_issue(kind, item, title, labels, dry, ok, number) ==
    IF dry THEN [gh |-> <<>>, preview |-> <<title>>, url |-> NoUrl]
    ELSE [gh |-> <<[kind |-> kind, item |-> item, title |-> title, labels |-> labels,
                    ok |-> ok, url |-> IF ok THEN number ELSE NoUrl]>>,
          preview |-> <<>>,
          url |-> IF ok THEN number ELSE NoUrl]

append_url_always(urls, url) == Append(urls, url)

\* "if url: urls.append(url)"
append_url(urls, url) == IF url # NoUrl THEN Append(urls, url) ELSE urls

\* the number of issues gh has created so far
Created(log) == Cardinality({i \in 1..Len(log) : log[i].ok})

\* the loop of create_domain_issues and its three siblings, from item i on
RECURSIVE issue_loop(_, _, _, _, _, _)
issue_loop(kind, items, dry, oks, i, acc) ==
    IF i > Len(items) THEN acc
    ELSE LET r == create_issue(kind, items[i], issue_title(kind, items[i]),
                               issue_labels(kind, items[i]), dry, oks[i],
                               Created(acc.gh) + 1)
         IN issue_loop(kind, items, dry, oks, i + 1,
                       [urls |-> append_url(acc.urls, r.url),
                        gh |-> acc.gh \o r.gh,
                        previews |-> acc.previews \o r.preview])

\* create_<kind>_issues(config, dry_run): its list of URLs, with the gh log and
\* the previews as the call leaves them
create_kind_issues(kind, cfg, dry, oks) ==
    issue_loop(kind, Get(cfg, kind, <<>>), dry, oks, 1,
               [urls |-> <<>>, gh |-> ghLog, previews |-> previews])

create_domain_issues(cfg, dry, oks) == create_kind_issues("domains", cfg, dry, oks)
create_industry_issues(cfg, dry, oks) == create_kind_issues("industries", cfg, dry, oks)
create_agent_issues(cfg, dry, oks) == create_kind_issues("agents", cfg, dry, oks)
create_pilot_issues(cfg, dry, oks) == create_kind_issues("pilots", cfg, dry, oks)

type_selects_any(type, kind) == TRUE

\* "if args.type in ['all', '<kind>']"
type_selects(type, kind) == type \in {"all", kind}

\* main, up to load_config
main_load ==
    /\ bpc = "load"
    /\ bpc' = IF load_config(cfgExists) = "exit1" THEN "exit1" ELSE "domains"
    /\ UNCHANGED <<cfgExists, config, dry_run, argType, created_urls, ghLog, previews>>

\* one "if args.type in [...]: created_urls.extend(create_..._issues(...))"
main_kind(kind, next, r) ==
    /\ bpc = kind
    /\ bpc' = next
    /\ IF type_selects(argType, kind)
       THEN /\ created_urls' = created_urls \o r.urls
            /\ ghLog' = r.gh
            /\ previews' = r.previews
       ELSE UNCHANGED <<created_urls, ghLog, previews>>
    /\ UNCHANGED <<cfgExists, config, dry_run, argType>>

Outcomes(kind) == [1..Len(Get(config, kind, <<>>)) -> BOOLEAN]

main_domains ==
    \E oks \in Outcomes("domains") :
        main_kind("domains", "industries", create_domain_issues(config, dry_run, oks))

main_industries ==
    \E oks \in Outcomes("industries") :
        main_kind("industries", "agents", create_industry_issues(config, dry_run, oks))

main_agents ==
    \E oks \in Outcomes("agents") :
        main_kind("agents", "pilots", create_agent_issues(config, dry_run, oks))

main_pilots ==
    \E oks \in Outcomes("pilots") :
        main_kind("pilots", "done", create_pilot_issues(config, dry_run, oks))

InitBatch ==
    /\ TrackerInit
    /\ BodyIdle
    /\ ResearchIdle
    /\ OthersIdle
    /\ cfgExists \in BOOLEAN
    /\ config \in (IF cfgExists THEN Configs ELSE {EmptyMapping})
    /\ dry_run \in BOOLEAN
    /\ argType \in Types
    /\ bpc = "load"
    /\ created_urls = <<>>
    /\ ghLog = <<>>
    /\ previews = <<>>

NextBatch ==
    \/ main_load
          /\ UNCHANGED <<trackerVars, bodyVars, researchVars, raceVars, applyVars, promptVars>>
    \/ main_domains
          /\ UNCHANGED <<trackerVars, bodyVars, researchVars, raceVars, applyVars, promptVars>>
    \/ main_industries
          /\ UNCHANGED <<trackerVars, bodyVars, researchVars, raceVars, applyVars, promptVars>>
    \/ main_agents
          /\ UNCHANGED <<trackerVars, bodyVars, researchVars, raceVars, applyVars, promptVars>>
    \/ main_pilots
          /\ UNCHANGED <<trackerVars, bodyVars, researchVars, raceVars, applyVars, promptVars>>

SpecBatch == InitBatch /\ [][NextBatch]_vars

----------------------------------------------------------------------------
(* Properties of create-research-issues.py *)

\* the items of the selected kinds, in the order domains, industries, agents,
\* pilots and, within a kind, in configuration order
RECURSIVE ExpectedFrom(_, _)
ExpectedFrom(type, k) ==
    IF k > Len(Kinds) THEN <<>>
    ELSE (IF type \in {"all", Kinds[k]}
          THEN [j \in 1..Len(Get(config, Kinds[k], <<>>)) |->
                    [kind |-> Kinds[k], item |-> Get(config, Kinds[k], <<>>)[j]]]
          ELSE <<>>)
         \o ExpectedFrom(type, k + 1)

Expected == ExpectedFrom(argType, 1)

\* the kinds of the issues attempted so far: created through gh, or previewed
AttemptedKinds ==
    IF dry_run
    THEN [i \in 1..Len(previews) |->
              CHOOSE k \in KindSet : TitlePrefix(k) = previews[i][1]]
    ELSE [i \in 1..Len(ghLog) |-> ghLog[i].kind]

\* C6: in dry-run mode gh is never invoked and the list of created URLs stays
\* empty, whatever the configuration and the --type.
C6_DryRunCreatesNothing ==
    dry_run => (ghLog = <<>> /\ created_urls = <<>>)

\* a dry run has gone through a configuration and previewed its items
C6_Witness ==
    /\ dry_run
    /\ bpc = "done"
    /\ Len(previews) >= 2
    /\ ghLog = <<>>
    /\ created_urls = <<>>

\* C7: with --type <kind> only issues of that kind are attempted; when main is
\* through, the kinds attempted are those of the selected items, in the order
\* domains, industries, agents, pilots (all four with --type all).
C7_TypeSelectsKinds ==
    /\ argType # "all" => \A i \in 1..Len(AttemptedKinds) : AttemptedKinds[i] = argType
    /\ bpc = "done" => AttemptedKinds = [i \in 1..Len(Expected) |-> Expected[i].kind]

\* --type industries, on a configuration that also has a domain: only the
\* industry was attempted
C7_Witness ==
    /\ bpc = "done"
    /\ argType = "industries"
    /\ ~dry_run
    /\ Len(Get(config, "domains", <<>>)) >= 1
    /\ Len(Get(config, "industries", <<>>)) >= 1
    /\ Len(ghLog) = 1
    /\ ghLog[1].kind = "industries"

\* C8: when a batch that is no dry run is through, gh was invoked once for
\* every item of a selected kind, in configuration order, failed invocations
\* included, and the URL list is the URLs of the successful ones in that order.
C8_OneAttemptPerItem ==
    (bpc = "done" /\ ~dry_run) =>
        /\ [i \in 1..Len(ghLog) |-> [kind |-> ghLog[i].kind, item |-> ghLog[i].item]]
               = Expected
        /\ created_urls = SelectSeq([i \in 1..Len(ghLog) |-> ghLog[i].url],
                                    LAMBDA u : u # NoUrl)
        /\ \A i \in 1..Len(ghLog) : ghLog[i].ok <=> ghLog[i].url # NoUrl

\* a failed attempt was followed by a successful one
C8_Witness ==
    /\ bpc = "done"
    /\ ~dry_run
    /\ Len(ghLog) = 2
    /\ ~ghLog[1].ok
    /\ ghLog[2].ok
    /\ ghLog[1].item # ghLog[2].item
    /\ created_urls = <<ghLog[2].url>>

\* C9: when the configuration file does not exist main exits with status 1
\* at load_config: nothing is created or previewed, before or after.
C9_MissingConfigExits ==
    ~cfgExists =>
        /\ bpc \in {"load", "exit1"}
        /\ ghLog = <<>>
        /\ previews = <<>>
        /\ created_urls = <<>>

\* main has exited with status 1 on a missing configuration file
C9_Witness ==
    /\ ~cfgExists
    /\ bpc = "exit1"
    /\ argType = "all"

----------------------------------------------------------------------------
(* generate_domain_body and the helpers that fill its template *)

\* an entry of a yaml list is a mapping or a plain string
Dict(m) == [isdict |-> TRUE, value |-> m]
Str(v) == [isdict |-> FALSE, value |-> v]

\* one markdown table row "| a | b | c |", by its cells
Row(a, b, c) == <<a, b, c>>

TBDRow == Row("TBD", "TBD", "TBD")

generate_table_rows_no_placeholder(items) ==
    [i \in 1..Len(items) |->
        IF items[i].isdict
        THEN Row(Get(items[i].value, "name", ""),
                 Get(items[i].value, "description", ""),
                 Get(items[i].value, "priority", "Medium"))
        ELSE Row(items[i].value, "TBD", "Medium")]

\* generate_table_rows: the rows, which the code joins with newlines
generate_table_rows(items) ==
    IF items = <<>> THEN <<TBDRow>>
    ELSE [i \in 1..Len(items) |->
            IF items[i].isdict
            THEN Row(Get(items[i].value, "name", ""),
                     Get(items[i].value, "description", ""),
                     Get(items[i].value, "priority", "Medium"))
            ELSE Row(items[i].value, "TBD", "Medium")]

\* generate_resource_list: the lines "- [title](url)" or "- item"
generate_resource_list(items) ==
    IF items = <<>> THEN <<<<"- ", "TBD">>>>
    ELSE [i \in 1..Len(items) |->
            IF items[i].isdict
            THEN <<"- [", Get(items[i].value, "title", "Link"), "](",
                   Get(items[i].value, "url", "#"), ")">>
            ELSE <<"- ", items[i].value>>]

\* generate_domain_body: the template, by the values put into its holes
generate_domain_body(domain) ==
    [run |-> TRUE,
     name |-> Get(domain, "name", ""),
     regulator |-> Get(domain, "regulator", ""),
     jurisdiction |-> Get(domain, "jurisdiction", "United States Federal"),
     table |-> generate_table_rows(Get(domain, "categories", <<>>)),
     slug |-> Get(domain, "slug", "domain"),
     resources |-> generate_resource_list(Get(domain, "resources", <<>>)),
     notes |-> Get(domain, "notes", ""),
     effort |-> Get(domain, "effort", "Medium")]

\* the entries a categories list is made of
CategoryItems ==
    {Str("Health claims"),
     Dict(EmptyMapping),
     Dict([name |-> "Pricing"]),
     Dict([name |-> "Endorsements", description |-> "Paid reviews", priority |-> "High"]),
     Dict([name |-> "TBD", description |-> "TBD", priority |-> "TBD"])}

\* the domain mappings: "name", "categories" and "resources" may be missing
DomainMappings ==
    {EmptyMapping, [name |-> "FTC"], [name |-> "FTC", resources |-> <<Str("ftc.gov")>>]}
    \cup {[categories |-> c] : c \in SeqsUpTo(CategoryItems, MaxCats)}
    \cup {[name |-> "FDA", categories |-> c] : c \in SeqsUpTo(CategoryItems, MaxCats)}

Generate ==
    /\ bodyOut = NotRun
    /\ bodyOut' = generate_domain_body(bodyArg)
    /\ UNCHANGED bodyArg

InitBody ==
    /\ TrackerInit
    /\ BatchIdle
    /\ ResearchIdle
    /\ OthersIdle
    /\ bodyArg \in DomainMappings
    /\ bodyOut = NotRun

NextBody ==
    \/ Generate
          /\ UNCHANGED <<trackerVars, batchVars, researchVars, raceVars, applyVars, promptVars>>

SpecBody == InitBody /\ [][NextBody]_vars

----------------------------------------------------------------------------
(* Properties of the domain issue body *)

\* C10: for a domain whose categories list is empty or missing the table of
\* the body is the single row "| TBD | TBD | TBD |"; for a list that is not
\* empty the table has one row per category and no row besides, the i-th row
\* made of the i-th category's name, description and priority (or of the
\* category itself, when it is a plain string).
C10_CategoryTable ==
    bodyOut # NotRun =>
        LET cats == IF "categories" \in DOMAIN bodyArg THEN bodyArg.categories ELSE <<>>
            rows == bodyOut.table
        IN IF Len(cats) = 0
           THEN rows = <<<<"TBD", "TBD", "TBD">>>>
           ELSE /\ Len(rows) = Len(cats)
                /\ \A i \in 1..Len(cats) :
                      rows[i] =
                        IF cats[i].isdict
                        THEN LET c == cats[i].value IN
                             <<IF "name" \in DOMAIN c THEN c.name ELSE "",
                               IF "description" \in DOMAIN c THEN c.description ELSE "",
                               IF "priority" \in DOMAIN c THEN c.priority ELSE "Medium">>
                        ELSE <<cats[i].value, "TBD", "Medium">>

\* a body was generated for a domain without categories, and it holds the
\* placeholder row
C10_Witness ==
    /\ bodyOut # NotRun
    /\ "categories" \notin DOMAIN bodyArg
    /\ bodyOut.table = <<TBDRow>>

----------------------------------------------------------------------------
(* research.py: more str methods on sequences of characters *)

UpperCase == <<"A", "B", "C", "D", "E", "F", "G", "H", "I", "J", "K", "L", "M",
               "N", "O", "P", "Q", "R", "S", "T", "U", "V", "W", "X", "Y", "Z">>
LowerCase == <<"a", "b", "c", "d", "e", "f", "g", "h", "i", "j", "k", "l", "m",
               "n", "o", "p", "q", "r", "s", "t", "u", "v", "w", "x", "y", "z">>

IsLetter(c) == \E i \in 1..26 : UpperCase[i] = c \/ LowerCase[i] = c

LowerChar(c) ==
    IF \E i \in 1..26 : UpperCase[i] = c
    THEN LowerCase[CHOOSE i \in 1..26 : UpperCase[i] = c] ELSE c
UpperChar(c) ==
    IF \E i \in 1..26 : LowerCase[i] = c
    THEN UpperCase[CHOOSE i \in 1..26 : LowerCase[i] = c] ELSE c

\* s.lower() and s.upper()
LowerStr(s) == [i \in 1..Len(s) |-> LowerChar(s[i])]
UpperStr(s) == [i \in 1..Len(s) |-> UpperChar(s[i])]

\* s.replace(a, b) for one-character a; b is a string
RECURSIVE Replace(_, _, _)
Replace(s, a, b) ==
    IF s = <<>> THEN <<>>
    ELSE (IF Head(s) = a THEN b ELSE <<Head(s)>>) \o Replace(Tail(s), a, b)

\* kw in s
Contains(s, kw) ==
    \E i \in 0..(Len(s) - Len(kw)) : SubSeq(s, i + 1, i + Len(kw)) = kw

slugify(text) == Replace(Replace(LowerStr(text), " ", <<"-">>), "_", <<"-">>)

\* agent_name.replace("-", " ").replace("_", " ").title().replace(" ", "");
\* title() upper-cases a letter that follows no letter and lower-cases one
\* that follows a letter
agent_title(agent_name) ==
    LET s == Replace(Replace(agent_name, "-", <<" ">>), "_", <<" ">>)
        t == [i \in 1..Len(s) |->
                 IF i > 1 /\ IsLetter(s[i - 1]) THEN LowerChar(s[i]) ELSE UpperChar(s[i])]
    IN Replace(t, " ", <<>>)

----------------------------------------------------------------------------
(* research.py: the file tree under RESEARCH_DIR *)

\* A path is the sequence of its components below RESEARCH_DIR; a component
\* is a sequence of pieces, each a literal of the program or a string computed
\* from an argument.
Lit(s) == [lit |-> s, chars |-> <<>>]
Chars(c) == [lit |-> "", chars |-> c]
Folder(s) == <<Lit(s)>>

\* path.mkdir(parents=True, exist_ok=True)
ensure_dir(d, path) == d \cup {SubSeq(path, 1, n) : n \in 0..Len(path)}

create_file_never_skips(f, d, path, overwrite) == FALSE

\* create_file's early return: path.exists() and not overwrite
create_file_skips(f, d, path, overwrite) == (path \in DOMAIN f \/ path \in d) /\ ~overwrite

\* create_file(path, content, overwrite) on the tree (f, d): the tree after
\* it, what it returned, and whether the path existed when it was called
create_file(f, d, path, content, overwrite) ==
    LET existed == path \in DOMAIN f \/ path \in d IN
    IF create_file_skips(f, d, path, overwrite)
    THEN [files |-> f, dirs |-> d, returned |-> FALSE, existed |-> existed]
    ELSE [files |-> [p \in DOMAIN f \cup {path} |-> IF p = path THEN content ELSE f[p]],
          dirs |-> ensure_dir(d, SubSeq(path, 1, Len(path) - 1)),
          returned |-> TRUE, existed |-> existed]

\* the folder cmd_new_domain chooses from the keywords in the slug
domain_folder(slug) ==
    LET any(kws) == \E k \in 1..Len(kws) : Contains(slug, kws[k]) IN
    IF any(<<<<"f", "t", "c">>, <<"c", "l", "a", "i", "m">>, <<"c", "a", "t", "e", "g", "o", "r", "y">>, <<"s", "u", "b", "s", "t", "a", "n", "t", "i", "a", "t", "i", "o", "n">>>>)
    THEN <<Folder("domains"), Folder("claim-categories")>>
    ELSE IF any(<<<<"b", "r", "i", "e", "f">>, <<"d", "e", "l", "i", "v", "e", "r", "a", "b", "l", "e">>, <<"t", "y", "p", "e">>>>)
    THEN <<Folder("domains"), Folder("brief-types")>>
    ELSE IF any(<<<<"w", "o", "r", "k", "f", "l", "o", "w">>, <<"a", "g", "e", "n", "c", "y">>, <<"p", "r", "o", "c", "e", "s", "s">>>>)
    THEN <<Folder("domains"), Folder("agency-workflow")>>
    ELSE IF any(<<<<"s", "o", "u", "r", "c", "e">>, <<"c", "r", "e", "d", "i", "b", "i", "l", "i", "t", "y">>>>)
    THEN <<Folder("domains"), Folder("sources")>>
    ELSE IF any(<<<<"h", "e", "a", "l", "t", "h">>, <<"f", "i", "n", "a", "n", "c", "i", "a", "l">>, <<"c", "p", "g">>, <<"f", "o", "o", "d">>, <<"e", "n", "v", "i", "r", "o", "n", "m", "e", "n", "t">>>>)
    THEN <<Folder("domains"), Folder("claim-categories"), Folder("industry-specific")>>
    ELSE <<Folder("domains")>>

\* TEMPLATES[name].format(...): the template and the values of its holes
Template(name, title, day, extra) ==
    [template |-> name, title |-> title, date |-> day, extra |-> extra]

\* a document written or edited by hand
UserText == Template("user", <<>>, "", <<>>)

----------------------------------------------------------------------------
(* research.py new <type> <name>  *)

MaxFiles == 2    \* documents the tree can hold

\* names given on the command line; both have the slug "ftc-x"
Topics == {<<"F", "T", "C", " ", "x">>, <<"f", "t", "c", "_", "x">>}

\* versions given to "new eval"; both give the same file name
Versions == {<<"1", ".", "0">>, <<"1", "-", "0">>}

Mkdir(path) == [op |-> "mkdir", path |-> path, content |-> UserText]
Create(path, content) == [op |-> "create", path |-> path, content |-> content]

\* the ensure_dir and create_file calls of a command, made in order on the
\* tree (f, d): the tree after them, what the create_file calls returned and
\* whether their paths existed
RECURSIVE run_ops(_, _, _)
run_ops(f, d, ops) ==
    IF ops = <<>> THEN [files |-> f, dirs |-> d, returned |-> <<>>, existed |-> <<>>]
    ELSE LET o == Head(ops) IN
         IF o.op = "mkdir"
         THEN run_ops(f, ensure_dir(d, o.path), Tail(ops))
         ELSE LET c == create_file(f, d, o.path, o.content, FALSE)
                  r == run_ops(c.files, c.dirs, Tail(ops))
              IN [r EXCEPT !.returned = <<c.returned>> \o r.returned,
                           !.existed = <<c.existed>> \o r.existed]

NewCommands == {"new domain", "new spec", "new eval", "new pilot",
                "new interview", "new finding"}

cmd_new(name, ops) ==
    LET r == run_ops(files, dirs, ops) IN
    /\ Cardinality(DOMAIN r.files) <= MaxFiles
    /\ files' = r.files
    /\ dirs' = r.dirs
    /\ rlast' = [run |-> TRUE, cmd |-> name,
                 existed |-> r.existed, returned |-> r.returned]
    /\ UNCHANGED today

cmd_new_domain ==
    \E topic \in Topics :
        LET slug == slugify(topic) IN
        cmd_new("new domain",
            <<Create(domain_folder(slug) \o <<<<Chars(slug), Lit(".md")>>>>,
                     Template("domain", topic, today, Replace(slug, "-", <<",", " ">>)))>>)

cmd_new_spec ==
    \E agent_name \in Topics :
        LET slug == slugify(agent_name)
            test_folder == <<Folder("agents"), Folder("test-cases"), <<Chars(slug)>>>>
        IN cmd_new("new spec",
               <<Create(<<Folder("agents"), Folder("specifications"),
                          <<Chars(slug), Lit("-spec.md")>>>>,
                        Template("spec", agent_title(agent_name), today, <<>>)),
                 Mkdir(test_folder),
                 Create(test_folder \o <<Folder("TC-001.json")>>,
                        Template("TC-001", <<>>, "", <<>>))>>)

cmd_new_eval ==
    \E agent_name \in Topics, version \in Versions :
        cmd_new("new eval",
            <<Create(<<Folder("agents"), Folder("evaluations"),
                       <<Lit(today), Lit("-"), Chars(slugify(agent_name)), Lit("-v"),
                         Chars(Replace(version, ".", <<"-">>)), Lit(".md")>>>>,
                     Template("eval", agent_title(agent_name), today, version))>>)

cmd_new_pilot ==
    \E agency_name \in Topics :
        LET folder == <<Folder("pilots"), <<Chars(slugify(agency_name))>>>> IN
        cmd_new("new pilot",
            <<Mkdir(folder),
              Mkdir(folder \o <<Folder("briefs")>>),
              Mkdir(folder \o <<Folder("feedback")>>),
              Create(folder \o <<Folder("README.md")>>,
                     Template("pilot", agency_name, today, <<>>))>>)

cmd_new_interview ==
    \E agency_name \in Topics :
        LET folder == <<Folder("pilots"), <<Chars(slugify(agency_name))>>,
                        Folder("feedback")>> IN
        cmd_new("new interview",
            <<Mkdir(folder),
              Create(folder \o <<<<Lit(today), Lit("-interview.md")>>>>,
                     Template("interview", agency_name, today, <<>>))>>)

cmd_new_finding ==
    \E topic \in Topics :
        cmd_new("new finding",
            <<Create(<<Folder("findings"),
                       <<Lit(today), Lit("-"), Chars(slugify(topic)), Lit(".md")>>>>,
                     Template("finding", topic, today, <<>>))>>)

\* somebody edits a document by hand
UserWrites ==
    \E p \in DOMAIN files :
        /\ Cardinality({q \in DOMAIN files : files[q] = UserText} \cup {p}) <= MaxFiles
        /\ files' = [files EXCEPT ![p] = UserText]
        /\ rlast' = [run |-> TRUE, cmd |-> "user", existed |-> <<>>, returned |-> <<>>]
        /\ UNCHANGED <<dirs, today>>

\* midnight
NextDay ==
    /\ today = Days[1]
    /\ today' = Days[2]
    /\ rlast' = [run |-> TRUE, cmd |-> "midnight", existed |-> <<>>, returned |-> <<>>]
    /\ UNCHANGED <<files, dirs>>

InitResearch == TrackerInit /\ BatchIdle /\ BodyIdle /\ ResearchIdle /\ OthersIdle

NextResearch ==
    \/ cmd_new_domain
          /\ UNCHANGED <<trackerVars, batchVars, bodyVars, raceVars, applyVars, promptVars>>
    \/ cmd_new_spec
          /\ UNCHANGED <<trackerVars, batchVars, bodyVars, raceVars, applyVars, promptVars>>
    \/ cmd_new_eval
          /\ UNCHANGED <<trackerVars, batchVars, bodyVars, raceVars, applyVars, promptVars>>
    \/ cmd_new_pilot
          /\ UNCHANGED <<trackerVars, batchVars, bodyVars, raceVars, applyVars, promptVars>>
    \/ cmd_new_interview
          /\ UNCHANGED <<trackerVars, batchVars, bodyVars, raceVars, applyVars, promptVars>>
    \/ cmd_new_finding
          /\ UNCHANGED <<trackerVars, batchVars, bodyVars, raceVars, applyVars, promptVars>>
    \/ UserWrites
          /\ UNCHANGED <<trackerVars, batchVars, bodyVars, raceVars, applyVars, promptVars>>
    \/ NextDay
          /\ UNCHANGED <<trackerVars, batchVars, bodyVars, raceVars, applyVars, promptVars>>

SpecResearch == InitResearch /\ [][NextResearch]_vars

----------------------------------------------------------------------------
(* Properties of research.py *)

\* C11: a create_file call of a "new" command that finds its path existing
\* returns False, and no "new" command, whatever its arguments and whatever
\* the day, removes or changes the content of a document that is there, be it
\* written by an earlier run or by hand.
C11_NewNeverOverwrites ==
    [][(rlast'.run /\ rlast'.cmd \in NewCommands) =>
           /\ \A i \in 1..Len(rlast'.existed) :
                  rlast'.existed[i] => ~rlast'.returned[i]
           /\ \A p \in DOMAIN files :
                  p \in DOMAIN files' /\ files'[p] = files[p]]_vars

\* "new spec" was run again where its specification had been edited by hand:
\* both create_file calls found their paths and the edited document is there
C11_Witness ==
    /\ rlast.run /\ rlast.cmd = "new spec"
    /\ rlast.existed = <<TRUE, TRUE>>
    /\ rlast.returned = <<FALSE, FALSE>>
    /\ \E p \in DOMAIN files : files[p] = UserText

----------------------------------------------------------------------------
(* research.py init *)

\* FOLDER_STRUCTURE, in the order of the dict: a folder with the dict or
\* the list it is mapped to
FOLDER_STRUCTURE ==
    LET Sub(name, children) == [name |-> name, isdict |-> FALSE, children |-> children]
        Top(name, children) == [name |-> name, isdict |-> TRUE, children |-> children]
    IN <<Top("domains", <<Sub("claim-categories", <<"ftc-guidelines", "industry-specific">>),
                          Sub("brief-types", <<"templates", "samples">>),
                          Sub("agency-workflow", <<>>),
                          Sub("sources", <<>>)>>),
         Top("agents", <<Sub("specifications", <<>>),
                         Sub("test-cases", <<>>),
                         Sub("evaluations", <<>>)>>),
         Top("pilots", <<>>),
         Top("knowledge-base", <<Sub("ftc", <<"enforcement-actions", "guidelines">>),
                                 Sub("regulations", <<>>)>>),
         Sub("findings", <<>>)>>

touch_truncates(f, path) ==
    [p \in DOMAIN f \cup {path} |->
        IF p = path THEN Template("empty", <<>>, "", <<>>) ELSE f[p]]

\* path.touch(): an empty file is made unless the path exists
touch(f, path) ==
    IF path \in DOMAIN f THEN f
    ELSE [p \in DOMAIN f \cup {path} |->
             IF p = path THEN Template("empty", <<>>, "", <<>>) ELSE f[p]]

\* create_structure(base, structure) of cmd_init on the tree (f, d)
RECURSIVE create_structure(_, _, _, _)
create_structure(f, d, base, structure) ==
    IF Len(structure) = 0 THEN [files |-> f, dirs |-> d]
    ELSE LET e == Head(structure)
             folder == base \o <<Folder(e.name)>>
             d1 == ensure_dir(d, folder)
             gitkeep == folder \o <<Folder(".gitkeep")>>
             \* folder.iterdir()
             iterdir == {p \in DOMAIN f \cup d1 :
                            Len(p) = Len(folder) + 1 /\ SubSeq(p, 1, Len(folder)) = folder}
             f1 == IF iterdir = {} \/ (Cardinality(iterdir) = 1 /\ gitkeep \in iterdir)
                   THEN touch(f, gitkeep) ELSE f
             RECURSIVE children(_, _, _)
             children(fc, dc, i) ==
                 IF i > Len(e.children) THEN [files |-> fc, dirs |-> dc]
                 ELSE LET child_folder == folder \o <<Folder(e.children[i])>> IN
                      children(touch(fc, child_folder \o <<Folder(".gitkeep")>>),
                               ensure_dir(dc, child_folder), i + 1)
             inner == IF e.isdict THEN create_structure(f1, d1, folder, e.children)
                      ELSE children(f1, d1, 1)
         IN create_structure(inner.files, inner.dirs, base, Tail(structure))

\* research.py init
cmd_init ==
    LET s == create_structure(files, dirs, <<>>, FOLDER_STRUCTURE)
        r == create_file(s.files, s.dirs, <<Folder("README.md")>>,
                         Template("readme", <<>>, "", <<>>), TRUE)
    IN /\ files' = r.files
       /\ dirs' = r.dirs
       /\ rlast' = [run |-> TRUE, cmd |-> "init", existed |-> <<>>, returned |-> <<>>,
                    before |-> [files |-> files, dirs |-> dirs],
                    again |-> rlast.run /\ rlast.cmd = "init"]
       /\ UNCHANGED today

\* the trees init is run on: up to MaxFiles documents written by hand, in
\* folders of the structure and outside of it
InitScaffold ==
    /\ TrackerInit /\ BatchIdle /\ BodyIdle /\ OthersIdle
    /\ today = Days[1]
    /\ rlast = NotRun
    /\ \E S \in SUBSET {<<Folder("README.md")>>,
                         <<Folder("domains"), Folder(".gitkeep")>>,
                         <<Folder("domains"), Folder("notes.md")>>,
                         <<Folder("domains"), Folder("claim-categories"),
                           Folder("ftc-guidelines"), Folder(".gitkeep")>>,
                         <<Folder("findings"), Folder("x.md")>>,
                         <<Folder("pilots"), Folder("acme"), Folder("README.md")>>,
                         <<Folder("archive"), Folder("old.md")>>} :
          /\ Cardinality(S) <= MaxFiles
          /\ files = [p \in S |-> UserText]
          /\ dirs = UNION {ensure_dir({}, SubSeq(p, 1, Len(p) - 1)) : p \in S}

NextScaffold ==
    \/ cmd_init
          /\ UNCHANGED <<trackerVars, batchVars, bodyVars, raceVars, applyVars, promptVars>>
    \/ UserWrites
          /\ UNCHANGED <<trackerVars, batchVars, bodyVars, raceVars, applyVars, promptVars>>

SpecScaffold == InitScaffold /\ [][NextScaffold]_vars

\* C23: after init every folder of the structure and research/README.md
\* exist; init, on a tree that is initialized or holds documents written by
\* hand, deletes no file and no folder and changes the content of no file
\* but README.md, which it rewrites; and init run right after init leaves
\* the tree as it was.
C23_InitIdempotentNonDestructive ==
    rlast.run /\ rlast.cmd = "init" =>
        LET before == rlast.before
            README == <<Folder("README.md")>>
            Under(top, subs) ==
                {<<Folder(top)>>} \cup {<<Folder(top)>> \o sub : sub \in subs}
            Folders ==
                Under("domains",
                      {<<Folder("claim-categories")>>,
                       <<Folder("claim-categories"), Folder("ftc-guidelines")>>,
                       <<Folder("claim-categories"), Folder("industry-specific")>>,
                       <<Folder("brief-types")>>,
                       <<Folder("brief-types"), Folder("templates")>>,
                       <<Folder("brief-types"), Folder("samples")>>,
                       <<Folder("agency-workflow")>>,
                       <<Folder("sources")>>})
                \cup Under("agents", {<<Folder("specifications")>>, <<Folder("test-cases")>>,
                                      <<Folder("evaluations")>>})
                \cup Under("pilots", {})
                \cup Under("knowledge-base",
                           {<<Folder("ftc")>>,
                            <<Folder("ftc"), Folder("enforcement-actions")>>,
                            <<Folder("ftc"), Folder("guidelines")>>,
                            <<Folder("regulations")>>})
                \cup Under("findings", {})
        IN /\ Cardinality(Folders) = 20
           /\ Folders \subseteq dirs
           /\ README \in DOMAIN files
           /\ files[README] = Template("readme", <<>>, "", <<>>)
           /\ DOMAIN before.files \subseteq DOMAIN files
           /\ before.dirs \subseteq dirs
           /\ \A p \in DOMAIN before.files : p # README => files[p] = before.files[p]
           /\ rlast.again => files = before.files /\ dirs = before.dirs

\* init was run twice in a row on a tree that holds a .gitkeep and another
\* document written by hand
C23_Witness ==
    /\ rlast.run /\ rlast.cmd = "init" /\ rlast.again
    /\ <<Folder("domains"), Folder(".gitkeep")>> \in DOMAIN files
    /\ files[<<Folder("domains"), Folder(".gitkeep")>>] = UserText
    /\ \E p \in DOMAIN files : p[Len(p)] # Folder(".gitkeep") /\ files[p] = UserText

----------------------------------------------------------------------------
(* Two runs of "inquiry.py start" at the same time.  Each run reads .current,
   later calls repo.create_issue and then writes .current; reads, API calls
   and writes of the two runs interleave. *)

Procs == {1, 2}

write_text_keeps_first(old, new) == IF old = NoFile THEN new ELSE old

\* CURRENT_FILE.write_text(new) where the file holds old
write_text(old, new) == new

\* lines 178-194: the "already working on" check, the feature lookup and
\* get_github
start_check(p) ==
    /\ procs[p].pc = "check"
    /\ LET current == get_current_feature(currentFile) IN
       \E env \in GithubEnvs :
           procs' = [procs EXCEPT ![p].pc =
               IF current = ValueError THEN "raise"
               ELSE IF start_refused(current) THEN "exit1"
               ELSE IF procs[p].fid \notin DOMAIN features THEN "exit1"
               ELSE IF env # "ok" THEN "exit1"
               ELSE "create"]
    /\ UNCHANGED <<currentFile, issues, tracked>>

\* lines 219-238: the labels and repo.create_issue
start_create(p) ==
    /\ procs[p].pc = "create"
    /\ \E lab \in [1..Len(LabelTypes) -> LabelOutcomes], createOk \in BOOLEAN :
           IF createOk
           THEN /\ Len(issues) < MaxIssues
                /\ issues' = Append(issues, "open")
                /\ tracked' = tracked \cup {Len(issues) + 1}
                /\ procs' = [procs EXCEPT ![p].pc = "write",
                                          ![p].number = Len(issues) + 1,
                                          ![p].labels = start_labels(procs[p].fid, lab, 1)]
           ELSE /\ procs' = [procs EXCEPT ![p].pc = "raise"]
                /\ UNCHANGED <<issues, tracked>>
    /\ UNCHANGED currentFile

\* line 244: set_current_feature(feature_id, issue.number)
start_write(p) ==
    /\ procs[p].pc = "write"
    /\ currentFile' = write_text(currentFile,
                                 set_current_feature(procs[p].fid, procs[p].number))
    /\ procs' = [procs EXCEPT ![p].pc = "done",
                               ![p].wrote = 1 + Cardinality({q \in Procs : procs[q].wrote > 0})]
    /\ UNCHANGED <<issues, tracked>>

InitRace ==
    /\ TrackerInit /\ BatchIdle /\ BodyIdle /\ ResearchIdle
    /\ markArg = EmptyMapping /\ markOut = NotRun
    /\ itemArg = EmptyMapping /\ itemOut = NotRun
    /\ promptDir = <<>> /\ pargs = EmptyMapping /\ pout = NotRun
    /\ procs \in [Procs -> {[pc |-> "check", fid |-> f, number |-> 0, labels |-> <<>>,
                             wrote |-> 0] : f \in Requests}]

NextRace ==
    \/ (\E p \in Procs : start_check(p))
          /\ UNCHANGED <<dirty, last, batchVars, bodyVars, researchVars, applyVars, promptVars>>
    \/ (\E p \in Procs : start_create(p))
          /\ UNCHANGED <<dirty, last, batchVars, bodyVars, researchVars, applyVars, promptVars>>
    \/ (\E p \in Procs : start_write(p))
          /\ UNCHANGED <<dirty, last, batchVars, bodyVars, researchVars, applyVars, promptVars>>

SpecRace == InitRace /\ [][NextRace]_vars

\* both runs passed the check, created an issue and wrote .current
BothStarted == \A p \in Procs : procs[p].pc = "done" /\ procs[p].number > 0

\* C12: two runs of start at the same time are not kept apart.  Whenever both
\* have run to their end, each created an issue of its own, both issues are
\* open, and .current holds what the later writer wrote: the feature and
\* issue of the other run are recorded nowhere.
C12_LaterWriterWins ==
    BothStarted =>
        \E p \in Procs, q \in Procs :
            /\ p # q
            /\ procs[p].wrote = 1 /\ procs[q].wrote = 2
            /\ procs[p].number # procs[q].number
            /\ issues[procs[p].number] = "open" /\ issues[procs[q].number] = "open"
            /\ currentFile = set_current_feature(procs[q].fid, procs[q].number)
            /\ currentFile # set_current_feature(procs[p].fid, procs[p].number)

\* the race: both runs started different features, both issues exist, and
\* .current records only the second writer's
C12_Witness ==
    /\ BothStarted
    /\ procs[1].fid = F11 /\ procs[2].fid = F12
    /\ procs[1].wrote = 2 /\ procs[2].wrote = 1
    /\ Len(issues) = 2
    /\ get_current_feature(currentFile) = Some(F11, procs[1].number)

----------------------------------------------------------------------------
(* generate-all-prompts.py *)

\* an option that was not given (argparse leaves it None)
NoArg == <<"<None>">>
NoPhase == -1

\* the names, without ".md", that files of prompts/ may have, as sorted() orders them
PromptIds == <<<<"2", ".", "1", ".", "1">>, <<"R", ".", "0", ".", "1">>, <<"R", ".", "1", ".", "1">>, <<"R", ".", "1", "0", ".", "1">>, <<"R", "E", "A", "D", "M", "E">>, <<"S", ".", "1", ".", "1">>, <<"r", ".", "2", ".", "1">>>>

\* s.split(c)
RECURSIVE SplitOn(_, _)
SplitOn(s, c) ==
    IF \A i \in 1..Len(s) : s[i] # c THEN <<s>>
    ELSE LET i == CHOOSE k \in 1..Len(s) : s[k] = c /\ \A j \in 1..(k - 1) : s[j] # c
         IN <<SubSeq(s, 1, i - 1)>> \o SplitOn(SubSeq(s, i + 1, Len(s)), c)

\* get_prompt_files: id, type and content of each file, in sorted order
get_prompt_files(dir) ==
    [i \in 1..Len(dir) |->
        [id |-> dir[i],
         type |-> IF Contains(dir[i], <<".">>) THEN SplitOn(dir[i], ".")[1]
                  ELSE <<dir[i][1]>>,
         content |-> [of |-> dir[i]]]]

\* the three tests of filter_prompts on one prompt
in_ids(p, ids) == \E i \in 1..Len(SplitOn(ids, ",")) : p.id = Strip(SplitOn(ids, ",")[i])
in_types(p, types) ==
    \E i \in 1..Len(SplitOn(types, ",")) :
        UpperStr(p.type) = UpperStr(Strip(SplitOn(types, ",")[i]))
in_phase(p, phase) ==
    LET n == FormatInt(phase)
        prefix == p.type \o <<".">> \o n
    IN \/ Contains(p.id, <<".">> \o n \o <<".">>)
       \/ (Len(prefix) <= Len(p.id) /\ SubSeq(p.id, 1, Len(prefix)) = prefix)

filter_prompts_any(prompts, types, ids, phase) ==
    SelectSeq(prompts, LAMBDA p :
        \/ (ids # NoArg /\ ids # <<>> /\ in_ids(p, ids))
        \/ (types # NoArg /\ types # <<>> /\ in_types(p, types))
        \/ (phase # NoPhase /\ in_phase(p, phase)))

filter_prompts(prompts, types, ids, phase) ==
    LET f1 == IF ids # NoArg /\ ids # <<>>
              THEN SelectSeq(prompts, LAMBDA p : in_ids(p, ids)) ELSE prompts
        f2 == IF types # NoArg /\ types # <<>>
              THEN SelectSeq(f1, LAMBDA p : in_types(p, types)) ELSE f1
    IN IF phase # NoPhase THEN SelectSeq(f2, LAMBDA p : in_phase(p, phase)) ELSE f2

combine_prompts_no_separator(prompts, include_separator) ==
    <<[line |-> "# Combined Prompts"], [line |-> "Generated: <now>"],
      [total |-> FormatInt(Len(prompts))], [line |-> ""], [line |-> "## Prompts Included"]>>
    \o [i \in 1..Len(prompts) |-> [item |-> prompts[i].id]]
    \o <<[line |-> ""], [line |-> "---"], [line |-> ""]>>
    \o [k \in 1..(3 * Len(prompts)) |->
           LET p == prompts[((k - 1) \div 3) + 1] IN
           CASE k % 3 = 1 -> [marker |-> p.id]
             [] k % 3 = 2 -> [line |-> ""]
             [] OTHER -> [content |-> p.content]]

\* combine_prompts: the lines that are joined with "\n"; a record per line,
\* the content of a prompt file counting as one
combine_prompts(prompts, include_separator) ==
    LET RECURSIVE blocks(_)
        blocks(i) ==
            IF i > Len(prompts) THEN <<>>
            ELSE (IF include_separator /\ i > 1
                  THEN <<[line |-> ""], [line |-> "---"], [line |-> ""]>> ELSE <<>>)
                 \o <<[marker |-> prompts[i].id], [line |-> ""],
                      [content |-> prompts[i].content]>>
                 \o blocks(i + 1)
    IN <<[line |-> "# Combined Prompts"], [line |-> "Generated: <now>"],
         [total |-> FormatInt(Len(prompts))], [line |-> ""],
         [line |-> "## Prompts Included"]>>
       \o [i \in 1..Len(prompts) |-> [item |-> prompts[i].id]]
       \o <<[line |-> ""], [line |-> "---"], [line |-> ""]>>
       \o blocks(1)

output_file_ids_first(a) ==
    IF a.output # NoArg /\ a.output # <<>> THEN <<Chars(a.output)>>
    ELSE IF a.ids # NoArg /\ a.ids # <<>> THEN <<Lit("prompts-custom.md")>>
    ELSE IF a.type # NoArg /\ a.type # <<>>
    THEN <<Lit("prompts-"), Chars(UpperStr(Replace(a.type, ",", <<"-">>))), Lit(".md")>>
    ELSE IF a.phase # NoPhase
    THEN <<Lit("prompts-phase-"), Chars(FormatInt(a.phase)), Lit(".md")>>
    ELSE <<Lit("prompts-all.md")>>

\* the name of the file main writes in generated/
output_file(a) ==
    IF a.output # NoArg /\ a.output # <<>> THEN <<Chars(a.output)>>
    ELSE IF a.type # NoArg /\ a.type # <<>>
    THEN <<Lit("prompts-"), Chars(UpperStr(Replace(a.type, ",", <<"-">>))), Lit(".md")>>
    ELSE IF a.ids # NoArg /\ a.ids # <<>> THEN <<Lit("prompts-custom.md")>>
    ELSE IF a.phase # NoPhase
    THEN <<Lit("prompts-phase-"), Chars(FormatInt(a.phase)), Lit(".md")>>
    ELSE <<Lit("prompts-all.md")>>

\* what main leaves behind: its exit status, the prompts it kept, the text it
\* printed for --stdout, whether generated/ was made, the file written and its text
Outcome(exit, filtered, printed, mkdir, file, written) ==
    [run |-> TRUE, exit |-> exit, filtered |-> filtered, printed |-> printed,
     mkdir |-> mkdir, file |-> file, written |-> written]

main_without_empty_check ==
    /\ pout = NotRun
    /\ LET prompts == get_prompt_files(promptDir)
           filtered == filter_prompts(prompts, pargs.type, pargs.ids, pargs.phase)
           combined == combine_prompts(filtered, TRUE)
       IN pout' =
             IF pargs.list THEN Outcome(0, <<>>, <<>>, FALSE, <<>>, <<>>)
             ELSE IF pargs.stdout THEN Outcome(0, filtered, combined, FALSE, <<>>, <<>>)
             ELSE Outcome(0, filtered, <<>>, TRUE, output_file(pargs), combined)
    /\ UNCHANGED <<promptDir, pargs>>

main ==
    /\ pout = NotRun
    /\ LET prompts == get_prompt_files(promptDir)
           filtered == filter_prompts(prompts, pargs.type, pargs.ids, pargs.phase)
           combined == combine_prompts(filtered, TRUE)
       IN pout' =
             IF prompts = <<>> THEN Outcome(1, <<>>, <<>>, FALSE, <<>>, <<>>)
             ELSE IF pargs.list THEN Outcome(0, <<>>, <<>>, FALSE, <<>>, <<>>)
             ELSE IF filtered = <<>> THEN Outcome(1, <<>>, <<>>, FALSE, <<>>, <<>>)
             ELSE IF pargs.stdout THEN Outcome(0, filtered, combined, FALSE, <<>>, <<>>)
             ELSE Outcome(0, filtered, <<>>, TRUE, output_file(pargs), combined)
    /\ UNCHANGED <<promptDir, pargs>>

InitPrompts ==
    /\ TrackerInit /\ BatchIdle /\ BodyIdle /\ ResearchIdle
    /\ procs = <<>>
    /\ markArg = EmptyMapping /\ markOut = NotRun
    /\ itemArg = EmptyMapping /\ itemOut = NotRun
    /\ promptDir \in {SelectSeq(PromptIds, LAMBDA id : id \in S) :
                         S \in SUBSET {PromptIds[i] : i \in 1..Len(PromptIds)}}
    /\ pargs \in [type : {NoArg, <<>>, <<"R">>, <<"s", ",", " ", "r">>},
                  ids : {NoArg, <<"R", ".", "1", ".", "1", ",", " ", "R", "E", "A", "D", "M", "E">>, <<"S", ".", "1", ".", "1", ",", "R", ".", "1", "0", ".", "1", ",", "2", ".", "1", ".", "1">>},
                  phase : {NoPhase, 0, 1, 2},
                  output : {NoArg, <<"o", "u", "t", ".", "m", "d">>},
                  list : BOOLEAN,
                  stdout : BOOLEAN]
    /\ pout = NotRun

NextPrompts ==
    \/ main /\ UNCHANGED <<trackerVars, batchVars, bodyVars, researchVars, raceVars, applyVars>>

SpecPrompts == InitPrompts /\ [][NextPrompts]_vars

----------------------------------------------------------------------------
(* Properties of generate-all-prompts.py *)

\* main got as far as filtering: there are prompt files and --list is not given
Filtered == pout.run /\ promptDir # <<>> /\ ~pargs.list

\* a string option is given and not empty
Given(arg) == arg # NoArg /\ arg # <<>>

\* the dot-separated components of a prompt's identifier
Components(p) == SplitOn(p.id, ".")

\* C15: with --type given, every prompt selected has an identifier whose first
\* dot-separated component is, case-insensitively, one of the requested types.
C15_TypeSelectsFirstComponent ==
    (Filtered /\ Given(pargs.type)) =>
        \A k \in 1..Len(pout.filtered) :
            \E i \in 1..Len(SplitOn(pargs.type, ",")) :
                UpperStr(Components(pout.filtered[k])[1])
                    = UpperStr(Strip(SplitOn(pargs.type, ",")[i]))

\* C16: with --phase=N as the only filter, the prompts kept are exactly those
\* whose identifier has N as the component after the type; so phase 1 keeps
\* neither R.10.1 nor 2.1.1.
C16_PhaseKeepsExactlyPhaseN ==
    (Filtered /\ ~Given(pargs.type) /\ ~Given(pargs.ids) /\ pargs.phase # NoPhase) =>
        /\ pout.filtered =
              SelectSeq(get_prompt_files(promptDir),
                        LAMBDA p : /\ Len(Components(p)) >= 2
                                   /\ Components(p)[2] = FormatInt(pargs.phase))
        /\ pargs.phase = 1 =>
              \A k \in 1..Len(pout.filtered) :
                  pout.filtered[k].id \notin {<<"R", ".", "1", "0", ".", "1">>, <<"2", ".", "1", ".", "1">>}

\* C19: the prompts filter_prompts keeps are a sub-sequence of its input, in
\* the same order; each satisfies every filter given, each prompt dropped
\* fails one of them, and with no filter given the input is returned as it is.
C19_FiltersAreAConjunction ==
    Filtered =>
        LET input == get_prompt_files(promptDir)
            kept == pout.filtered
            pos(p) == CHOOSE i \in 1..Len(input) : input[i] = p
            passes(p) == /\ Given(pargs.ids) => in_ids(p, pargs.ids)
                         /\ Given(pargs.type) => in_types(p, pargs.type)
                         /\ pargs.phase # NoPhase => in_phase(p, pargs.phase)
        IN /\ \A k \in 1..Len(kept) : \E i \in 1..Len(input) : input[i] = kept[k]
           /\ \A j, k \in 1..Len(kept) : j < k => pos(kept[j]) < pos(kept[k])
           /\ \A k \in 1..Len(kept) : passes(kept[k])
           /\ \A i \in 1..Len(input) :
                  (\A k \in 1..Len(kept) : kept[k] # input[i]) => ~passes(input[i])
           /\ (~Given(pargs.ids) /\ ~Given(pargs.type) /\ pargs.phase = NoPhase)
                  => kept = input

\* all three filters were given; of four prompt files they kept the second
\* and dropped one for its id, one for its type and one for its phase
C19_Witness ==
    /\ Filtered
    /\ Given(pargs.ids) /\ Given(pargs.type) /\ pargs.phase = 1
    /\ Len(promptDir) >= 4
    /\ Len(pout.filtered) = 1
    /\ pout.filtered[1].id = <<"R", ".", "1", ".", "1">>

\* the text main printed or wrote
Document == IF pargs.stdout THEN pout.printed ELSE pout.written

\* C20: the document combine_prompts makes of n prompts states "Total
\* prompts: n" in its header and lists the ids once each, in order, before the
\* header's separator; then come the n contents in the same order, each after
\* its marker and one empty line, with one separator between two consecutive
\* prompts: n - 1 separators besides the header's.
C20_CombinedDocument ==
    (Filtered /\ pout.exit = 0) =>
        LET doc == Document
            n == Len(pout.filtered)
            has(k, field) == field \in DOMAIN doc[k]
            at(field) == {k \in 1..Len(doc) : has(k, field)}
            seps == {k \in at("line") : doc[k].line = "---"}
            body(i) == 8 + n + 6 * (i - 1)
        IN /\ Len(doc) = body(n) + 3
           /\ doc[3] = [total |-> FormatInt(n)]
           /\ at("total") = {3}
           /\ at("item") = 6..(5 + n)
           /\ \A i \in 1..n : doc[5 + i] = [item |-> pout.filtered[i].id]
           /\ 7 + n \in seps
           /\ Cardinality(at("content")) = n /\ Cardinality(at("marker")) = n
           /\ \A i \in 1..n :
                  /\ doc[body(i) + 1] = [marker |-> pout.filtered[i].id]
                  /\ doc[body(i) + 2] = [line |-> ""]
                  /\ doc[body(i) + 3] = [content |-> pout.filtered[i].content]
                  /\ i > 1 => body(i) - 1 \in seps
           /\ Cardinality(seps) = n

\* three prompts were combined into a file
C20_Witness ==
    /\ Filtered /\ pout.exit = 0 /\ ~pargs.stdout
    /\ Len(pout.filtered) = 3
    /\ Len(pout.written) = 26
    /\ pout.written[14] = [content |-> pout.filtered[1].content]
    /\ pout.written[16] = [line |-> "---"]
    /\ pout.written[18] = [marker |-> pout.filtered[2].id]


\* C21: main writes no output file when there is nothing to combine: when
\* prompts/ holds no prompt file, or when the filtering (which main reaches
\* when --list is not given) leaves no prompt, main exits with status 1 and
\* has neither made generated/ nor written a file; with --list it makes no
\* directory and writes no file either.
C21_NothingToCombineWritesNothing ==
    pout.run =>
        LET prompts == get_prompt_files(promptDir)
            kept == filter_prompts(prompts, pargs.type, pargs.ids, pargs.phase)
            nothing == ~pout.mkdir /\ pout.file = <<>> /\ pout.written = <<>>
        IN /\ prompts = <<>> => pout.exit = 1 /\ nothing
           /\ ~pargs.list /\ kept = <<>> => pout.exit = 1 /\ nothing
           /\ pargs.list => nothing

\* there are prompt files, the filters left none of them, and main has
\* exited with status 1 without making generated/
C21_Witness ==
    /\ pout.run
    /\ get_prompt_files(promptDir) # <<>>
    /\ ~pargs.list /\ ~pargs.stdout
    /\ Given(pargs.type)
    /\ pout.exit = 1
    /\ ~pout.mkdir /\ pout.file = <<>>

\* C22: the file main writes is chosen by a fixed precedence: the --output
\* name when --output is given (and not empty), else prompts-<TYPES>.md when
\* --type is given (<TYPES> being the option in upper case with "-" for ","),
\* else prompts-custom.md when --ids is given, else prompts-phase-<N>.md when
\* --phase is given, phase 0 included, else prompts-all.md; with --stdout no
\* file is written and generated/ is not made.
C22_OutputFilePrecedence ==
    pout.run /\ pout.exit = 0 /\ ~pargs.list =>
        IF pargs.stdout
        THEN ~pout.mkdir /\ pout.file = <<>> /\ pout.written = <<>>
        ELSE /\ pout.mkdir
             /\ pout.written # <<>>
             /\ pout.file =
                  (IF Given(pargs.output) THEN <<Chars(pargs.output)>>
                   ELSE IF pargs.type = <<"R">> THEN <<Lit("prompts-"), Chars(<<"R">>), Lit(".md")>>
                   ELSE IF pargs.type = <<"s", ",", " ", "r">>
                   THEN <<Lit("prompts-"), Chars(<<"S", "-", " ", "R">>), Lit(".md")>>
                   ELSE IF Given(pargs.ids) THEN <<Lit("prompts-custom.md")>>
                   ELSE IF pargs.phase = 0
                   THEN <<Lit("prompts-phase-"), Chars(<<"0">>), Lit(".md")>>
                   ELSE IF pargs.phase # NoPhase
                   THEN <<Lit("prompts-phase-"), Chars(FormatInt(pargs.phase)), Lit(".md")>>
                   ELSE <<Lit("prompts-all.md")>>)

\* with --phase 0 as the only option given, the file written is
\* prompts-phase-0.md
C22_Witness ==
    /\ pout.run /\ pout.exit = 0
    /\ ~pargs.list /\ ~pargs.stdout
    /\ pargs.output = NoArg /\ pargs.type = NoArg /\ pargs.ids = NoArg
    /\ pargs.phase = 0
    /\ pout.mkdir
    /\ pout.file = <<Lit("prompts-phase-"), Chars(<<"0">>), Lit(".md")>>

----------------------------------------------------------------------------
(* The issue bodies of industries, agents and pilots *)

\* generate_bullet_list: the lines "- item"
generate_bullet_list(items) ==
    IF items = <<>> THEN <<<<"- ", "TBD">>>>
    ELSE [i \in 1..Len(items) |-> <<"- ", items[i]>>]

\* generate_numbered_list: the lines "i. item"
generate_numbered_list(items) ==
    IF items = <<>> THEN <<<<FormatInt(1), ". ", "TBD">>>>
    ELSE [i \in 1..Len(items) |-> <<FormatInt(i), ". ", items[i]>>]

\* generate_industry_body: the template, by the values put into its holes;
\* join is ', '.join
generate_industry_body(industry) ==
    LET join(xs) == [i \in 1..(2 * Len(xs) - 1) |->
                            IF i % 2 = 1 THEN xs[(i + 1) \div 2] ELSE ", "]
        generate_claim_type_rows(items) ==
            IF items = <<>> THEN <<<<"TBD", "TBD", "TBD", "TBD">>>>
            ELSE [i \in 1..Len(items) |->
                    IF items[i].isdict
                    THEN <<Get(items[i].value, "type", ""), Get(items[i].value, "example", ""),
                           Get(items[i].value, "risk", "Medium"),
                           Get(items[i].value, "regulation", "")>>
                    ELSE <<items[i].value, "TBD", "Medium", "TBD">>]
        generate_pilot_rows(items) ==
            IF items = <<>> THEN <<TBDRow>>
            ELSE [i \in 1..Len(items) |->
                    IF items[i].isdict
                    THEN Row(Get(items[i].value, "name", ""), Get(items[i].value, "reason", ""),
                             Get(items[i].value, "priority", "Medium"))
                    ELSE Row(items[i].value, "TBD", "Medium")]
    IN [name |-> Get(industry, "name", ""),
        regulators |-> join(Get(industry, "regulators", <<>>)),
        market_size |-> Get(industry, "market_size", "TBD"),
        claim_types |-> generate_claim_type_rows(Get(industry, "claim_types", <<>>)),
        federal_regulations |-> generate_bullet_list(Get(industry, "federal_regulations", <<>>)),
        state_regulations |-> generate_bullet_list(Get(industry, "state_regulations", <<>>)),
        self_regulatory |-> generate_bullet_list(Get(industry, "self_regulatory", <<>>)),
        compliance_considerations |-> generate_numbered_list(Get(industry, "compliance_considerations", <<>>)),
        slug |-> Get(industry, "slug", "industry"),
        pilot_candidates |-> generate_pilot_rows(Get(industry, "pilot_candidates", <<>>)),
        resources |-> generate_resource_list(Get(industry, "resources", <<>>)),
        notes |-> Get(industry, "notes", ""),
        effort |-> Get(industry, "effort", "Medium")]

\* generate_agent_spec_body
generate_agent_spec_body(agent) ==
    LET generate_error_handling_rows(items) ==
            IF items = <<>> THEN <<<<"TBD", "TBD">>>>
            ELSE [i \in 1..Len(items) |->
                    IF items[i].isdict
                    THEN <<Get(items[i].value, "error", ""), Get(items[i].value, "strategy", "")>>
                    ELSE <<items[i].value, "TBD">>]
    IN [name |-> Get(agent, "name", ""),
        type |-> Get(agent, "type", "Analysis"),
        priority |-> Get(agent, "priority", "Medium"),
        complexity |-> Get(agent, "complexity", "Medium"),
        purpose |-> Get(agent, "purpose", ""),
        input_schema |-> Get(agent, "input_schema", "// Define input schema"),
        required_inputs |-> generate_bullet_list(Get(agent, "required_inputs", <<>>)),
        optional_inputs |-> generate_bullet_list(Get(agent, "optional_inputs", <<>>)),
        output_schema |-> Get(agent, "output_schema", "// Define output schema"),
        output_fields |-> generate_bullet_list(Get(agent, "output_fields", <<>>)),
        capabilities |-> generate_numbered_list(Get(agent, "capabilities", <<>>)),
        processing_logic |-> Get(agent, "processing_logic", ""),
        upstream_agents |-> generate_bullet_list(Get(agent, "upstream_agents", <<"None">>)),
        downstream_agents |-> generate_bullet_list(Get(agent, "downstream_agents", <<"None">>)),
        external_services |-> generate_bullet_list(Get(agent, "external_services", <<"None">>)),
        error_handling |-> generate_error_handling_rows(Get(agent, "error_handling", <<>>)),
        latency_target |-> Get(agent, "latency_target", "TBD"),
        throughput_target |-> Get(agent, "throughput_target", "TBD"),
        accuracy_target |-> Get(agent, "accuracy_target", "TBD"),
        prompt_notes |-> Get(agent, "prompt_notes", ""),
        test_scenarios |-> generate_numbered_list(Get(agent, "test_scenarios", <<>>)),
        implementation_notes |-> Get(agent, "implementation_notes", ""),
        effort |-> Get(agent, "effort", "Medium"),
        related_domain |-> Get(agent, "related_domain", "")]

\* generate_pilot_body
generate_pilot_body(pilot) ==
    LET join(xs) == [i \in 1..(2 * Len(xs) - 1) |->
                            IF i % 2 = 1 THEN xs[(i + 1) \div 2] ELSE ", "]
    IN [name |-> Get(pilot, "name", ""),
        industry |-> Get(pilot, "industry", ""),
        agents |-> join(Get(pilot, "agents", <<>>)),
        source_type |-> Get(pilot, "source_type", ""),
        source_url |-> Get(pilot, "source_url", ""),
        data_volume |-> Get(pilot, "data_volume", ""),
        date_range |-> Get(pilot, "date_range", ""),
        in_scope |-> generate_bullet_list(Get(pilot, "in_scope", <<>>)),
        out_of_scope |-> generate_bullet_list(Get(pilot, "out_of_scope", <<>>)),
        detection_target |-> Get(pilot, "detection_target", ">90%"),
        accuracy_target |-> Get(pilot, "accuracy_target", ">85%"),
        time_target |-> Get(pilot, "time_target", "<5s per page"),
        fp_target |-> Get(pilot, "fp_target", "<10%"),
        success_criteria |-> generate_bullet_list(Get(pilot, "success_criteria", <<>>)),
        notes |-> Get(pilot, "notes", ""),
        effort |-> Get(pilot, "effort", "Medium"),
        prerequisites |-> join(Get(pilot, "prerequisites", <<>>))]

----------------------------------------------------------------------------
(* Functions applied on their own to given arguments: the marker file
   functions of inquiry.py, and the title, body and labels that
   create-research-issues.py builds for one item *)

\* set_current_feature(id, num), then get_current_feature()
set_and_get ==
    /\ markArg # EmptyMapping
    /\ markOut = NotRun
    /\ LET file == set_current_feature(markArg.id, markArg.num) IN
       markOut' = [run |-> TRUE, step |-> "set", file |-> file,
                   got |-> get_current_feature(file)]
    /\ UNCHANGED <<markArg, itemArg, itemOut>>

\* clear_current_feature(), then get_current_feature()
clear_and_get ==
    /\ markOut.run
    /\ markOut.step = "set"
    /\ LET file == clear_current_feature(markOut.file) IN
       markOut' = [run |-> TRUE, step |-> "clear", file |-> file,
                   got |-> get_current_feature(file)]
    /\ UNCHANGED <<markArg, itemArg, itemOut>>

\* the body of one pass of the loop of create_domain_issues and its siblings,
\* up to the call of create_issue
build_issue ==
    /\ itemArg # EmptyMapping
    /\ itemOut = NotRun
    /\ LET kind == itemArg.kind
           item == itemArg.item
       IN itemOut' = [run |-> TRUE,
                      title |-> issue_title(kind, item),
                      body |-> CASE kind = "domains" -> generate_domain_body(item)
                                 [] kind = "industries" -> generate_industry_body(item)
                                 [] kind = "agents" -> generate_agent_spec_body(item)
                                 [] kind = "pilots" -> generate_pilot_body(item),
                      labels |-> issue_labels(kind, item)]
    /\ UNCHANGED <<markArg, markOut, itemArg>>

\* a mapping of each kind with every key the code reads
FullItem(kind) ==
    CASE kind = "domains" ->
           [name |-> "FTC", regulator |-> "Federal Trade Commission", jurisdiction |-> "EU",
            categories |-> <<Dict([name |-> "Pricing"]), Str("Health claims")>>,
            slug |-> "ftc", resources |-> <<Str("ftc.gov")>>, notes |-> "n", effort |-> "Large",
            labels |-> <<"priority">>]
      [] kind = "industries" ->
           [name |-> "Supplements", regulators |-> <<"FDA", "FTC">>, market_size |-> "50B",
            claim_types |-> <<Dict([type |-> "Health"]), Str("Structure")>>,
            federal_regulations |-> <<"DSHEA">>, state_regulations |-> <<"Prop 65">>,
            self_regulatory |-> <<"NAD">>, compliance_considerations |-> <<"labels", "ads">>,
            slug |-> "supplements",
            pilot_candidates |-> <<Dict([name |-> "Acme"]), Str("Bolt")>>,
            resources |-> <<Dict([title |-> "FDA"])>>, notes |-> "n", effort |-> "Small",
            labels |-> <<"priority", "q1">>]
      [] kind = "agents" ->
           [name |-> "Extractor", type |-> "Extraction", priority |-> "High", complexity |-> "Low",
            purpose |-> "p", input_schema |-> "{}", required_inputs |-> <<"url">>,
            optional_inputs |-> <<"lang">>, output_schema |-> "[]", output_fields |-> <<"claims">>,
            capabilities |-> <<"parse", "rank">>, processing_logic |-> "l",
            upstream_agents |-> <<"Crawler">>, downstream_agents |-> <<>>,
            external_services |-> <<"LLM">>,
            error_handling |-> <<Dict([error |-> "timeout"]), Str("parse error")>>,
            latency_target |-> "1s", throughput_target |-> "10/s", accuracy_target |-> "95%",
            prompt_notes |-> "pn", test_scenarios |-> <<"empty page">>,
            implementation_notes |-> "i", effort |-> "Large", related_domain |-> "FTC",
            labels |-> <<"priority">>]
      [] kind = "pilots" ->
           [name |-> "Acme pilot", industry |-> "Supplements", agents |-> <<"Extractor", "Judge">>,
            source_type |-> "web", source_url |-> "acme.example", data_volume |-> "100 pages",
            date_range |-> "2024", in_scope |-> <<"ads">>, out_of_scope |-> <<"labels">>,
            detection_target |-> ">95%", accuracy_target |-> ">90%", time_target |-> "<1s",
            fp_target |-> "<5%", success_criteria |-> <<"recall">>, notes |-> "n",
            effort |-> "Small", prerequisites |-> <<"crawler">>, labels |-> <<"q2">>]

\* the mappings given to build_issue: of each kind, those with at most MaxKeys
\* keys and those with at most MaxKeys keys missing
ItemArgs ==
    LET RECURSIVE SubsetsUpTo(_, _)
        SubsetsUpTo(S, k) ==
            IF k = 0 THEN {{}}
            ELSE LET prev == SubsetsUpTo(S, k - 1)
                 IN prev \cup {s \cup {x} : s \in prev, x \in S}
    IN UNION {LET full == FullItem(Kinds[i])
                  few == SubsetsUpTo(DOMAIN full, MaxKeys)
              IN {[kind |-> Kinds[i], item |-> [k \in ks |-> full[k]]] :
                     ks \in few \cup {DOMAIN full \ s : s \in few}} : i \in 1..Len(Kinds)}

InitApply ==
    /\ TrackerInit /\ BatchIdle /\ BodyIdle /\ ResearchIdle
    /\ procs = <<>>
    /\ promptDir = <<>> /\ pargs = EmptyMapping /\ pout = NotRun
    /\ markOut = NotRun
    /\ itemOut = NotRun
    /\ \/ /\ markArg \in [id : {F11, FColon, <<"R", ".", "1", ".", "1">>, <<" ", "1">>, <<"1", " ">>, <<>>},
                          num : {0, 1, 9, 10, 42, 100, 2025}]
          /\ itemArg = EmptyMapping
       \/ /\ markArg = EmptyMapping
          /\ itemArg \in ItemArgs

NextApply ==
    \/ set_and_get
          /\ UNCHANGED <<trackerVars, batchVars, bodyVars, researchVars, raceVars, promptVars>>
    \/ clear_and_get
          /\ UNCHANGED <<trackerVars, batchVars, bodyVars, researchVars, raceVars, promptVars>>
    \/ build_issue
          /\ UNCHANGED <<trackerVars, batchVars, bodyVars, researchVars, raceVars, promptVars>>

SpecApply == InitApply /\ [][NextApply]_vars

\* C17: get_current_feature called after set_current_feature(id, n) returns
\* (id, n), for every feature id and every issue number, and called after
\* clear_current_feature it returns None.
C17_MarkerRoundTrips ==
    markOut.run =>
        IF markOut.step = "set"
        THEN markOut.got = Some(markArg.id, markArg.num)
        ELSE markOut.got = None

----------------------------------------------------------------------------
(* Properties of the title, body and labels of one issue *)

\* what the body holds for a key whose value is a string, when the key is
\* missing from the mapping
ScalarDefaults(kind) ==
    CASE kind = "domains" ->
        [name |-> "",
         regulator |-> "",
         jurisdiction |-> "United States Federal",
         slug |-> "domain",
         notes |-> "",
         effort |-> "Medium"]
      [] kind = "industries" ->
        [name |-> "",
         market_size |-> "TBD", slug |-> "industry",
         notes |-> "",
         effort |-> "Medium"]
      [] kind = "agents" ->
        [name |-> "",
         type |-> "Analysis",
         priority |-> "Medium",
         complexity |-> "Medium",
         purpose |-> "",
         input_schema |-> "// Define input schema",
         output_schema |-> "// Define output schema",
         processing_logic |-> "",
         latency_target |-> "TBD", throughput_target |-> "TBD", accuracy_target |-> "TBD", prompt_notes |-> "",
         implementation_notes |-> "",
         effort |-> "Medium",
         related_domain |-> ""]
      [] kind = "pilots" ->
        [name |-> "",
         industry |-> "",
         source_type |-> "",
         source_url |-> "",
         data_volume |-> "",
         date_range |-> "",
         detection_target |-> ">90%",
         accuracy_target |-> ">85%",
         time_target |-> "<5s per page",
         fp_target |-> "<10%",
         notes |-> "",
         effort |-> "Medium"]

\* what the body holds for a key whose value is a list, when the key is
\* missing from the mapping: the lines or rows written in its place
ListDefaults(kind) ==
    CASE kind = "domains" ->
        [categories |-> <<<<"TBD", "TBD", "TBD">>>>,
         resources |-> <<<<"- ", "TBD">>>>]
      [] kind = "industries" ->
        [regulators |-> <<>>,
         claim_types |-> <<<<"TBD", "TBD", "TBD", "TBD">>>>,
         federal_regulations |-> <<<<"- ", "TBD">>>>,
         state_regulations |-> <<<<"- ", "TBD">>>>,
         self_regulatory |-> <<<<"- ", "TBD">>>>,
         compliance_considerations |-> <<<<<<"1">>, ". ", "TBD">>>>,
         pilot_candidates |-> <<<<"TBD", "TBD", "TBD">>>>,
         resources |-> <<<<"- ", "TBD">>>>]
      [] kind = "agents" ->
        [required_inputs |-> <<<<"- ", "TBD">>>>,
         optional_inputs |-> <<<<"- ", "TBD">>>>,
         output_fields |-> <<<<"- ", "TBD">>>>,
         capabilities |-> <<<<<<"1">>, ". ", "TBD">>>>,
         upstream_agents |-> <<<<"- ", "None">>>>,
         downstream_agents |-> <<<<"- ", "None">>>>,
         external_services |-> <<<<"- ", "None">>>>,
         error_handling |-> <<<<"TBD", "TBD">>>>,
         test_scenarios |-> <<<<<<"1">>, ". ", "TBD">>>>]
      [] kind = "pilots" ->
        [agents |-> <<>>,
         in_scope |-> <<<<"- ", "TBD">>>>,
         out_of_scope |-> <<<<"- ", "TBD">>>>,
         success_criteria |-> <<<<"- ", "TBD">>>>,
         prerequisites |-> <<>>]

\* the hole of the body that a key fills
Hole(k) == IF k = "categories" THEN "table" ELSE k

\* C18: for a domain, industry, agent or pilot mapping, whichever keys are
\* missing, the title, the body and the labels are built: the title is the
\* prefix of the kind followed by the name, or by "Unknown"; the labels are
\* the two fixed labels of the kind followed by the configured labels, or by
\* nothing; the effort of the body is the configured one, or "Medium"; and
\* every other key of the body holds its value when it is a string that is
\* present, and its default when it is missing.
C18_MissingKeysGetDefaults ==
    itemOut.run =>
        LET kind == itemArg.kind
            item == itemArg.item
            has(k) == k \in DOMAIN item
            prefix == CASE kind = "domains" -> "[Research] Domain: "
                        [] kind = "industries" -> "[Research] Industry: "
                        [] kind = "agents" -> "[Agent] Spec: "
                        [] kind = "pilots" -> "[Pilot] "
            fixed == CASE kind = "domains" -> <<"research", "domain">>
                       [] kind = "industries" -> <<"research", "industry">>
                       [] kind = "agents" -> <<"agent", "specification">>
                       [] kind = "pilots" -> <<"pilot", "testing">>
            scalars == ScalarDefaults(kind)
            lists == ListDefaults(kind)
        IN /\ itemOut.title = <<prefix, IF has("name") THEN item["name"] ELSE "Unknown">>
           /\ Len(itemOut.labels) >= 2
           /\ SubSeq(itemOut.labels, 1, 2) = fixed
           /\ SubSeq(itemOut.labels, 3, Len(itemOut.labels))
                 = (IF has("labels") THEN item["labels"] ELSE <<>>)
           /\ itemOut.body["effort"] = (IF has("effort") THEN item["effort"] ELSE "Medium")
           /\ DOMAIN itemOut.body \ {"run"}
                 = {Hole(k) : k \in DOMAIN scalars \cup DOMAIN lists}
           /\ \A k \in DOMAIN scalars :
                 itemOut.body[k] = (IF has(k) THEN item[k] ELSE scalars[k])
           /\ \A k \in DOMAIN lists :
                 ~has(k) => itemOut.body[Hole(k)] = lists[k]

\* an agent mapping with no key at all has been given a title, a body and labels
C18_Witness ==
    /\ itemOut.run
    /\ itemArg.kind = "agents"
    /\ itemArg.item = EmptyMapping
    /\ itemOut.title = <<"[Agent] Spec: ", "Unknown">>
    /\ itemOut.labels = <<"agent", "specification">>
    /\ itemOut.body["effort"] = "Medium"

====
